---- MODULE Spec2Model ----
(***************************************************************************)
(* A model of the sundial skills CLI (sun add / sun remove): the source    *)
(* resolver, GitHub URL normalisation, skill discovery, the installer and  *)
(* the target-agent / scope resolution of the add and remove commands.     *)
(*                                                                         *)
(* Strings are sequences of tokens. A token is an atomic piece of text     *)
(* ("github.com", "https://", "/", "tree", ...); the separator "/" and the *)
(* branch marker "#" are tokens of their own, so split('/'), startsWith,   *)
(* includes and join are computed on the sequence as the code computes     *)
(* them on characters.                                                     *)
(***************************************************************************)
EXTENDS Integers, Sequences, FiniteSets, TLC

VARIABLES
    net,          \* what the registry API answers now: [up, listing]
    skillsCache,  \* registry.ts skillsCache: [set, listing], set = FALSE for null
    disk,         \* absolute paths that exist on the local disk (sources)
    agentDirs,    \* the agent folders that exist: paths <<base, folder>>
    installed,    \* destination path that exists -> the files below it
    tmpDirs,      \* staging directories that exist under os.tmpdir()
    config,       \* ~/.sun/config.json: [defaultAgents, firstRunComplete]
    ops,          \* number of operations performed so far
    last,         \* the last operation: its inputs and what it returned or threw
    procs         \* the installs of concurrent processes: position and tempDir of each

vars == <<net, skillsCache, disk, agentDirs, installed, tmpDirs, config, ops, last, procs>>

\* no concurrent install is under way
NoProcs == <<>>

(***************************************************************************)
(* Bounds of the model.                                                    *)
(***************************************************************************)
MaxUrlSegs == 5
MaxPathSegs == 2
MaxOps == 2

(***************************************************************************)
(* String primitives on token sequences.                                   *)
(***************************************************************************)
\* const v = value; body: the body sees the value under one name
With(value, Body(_)) == Body(value)

RECURSIVE Flatten(_)
Flatten(ss) == IF ss = <<>> THEN <<>> ELSE Head(ss) \o Flatten(Tail(ss))

RECURSIVE SplitAcc(_, _, _)
SplitAcc(s, cur, acc) ==
    IF s = <<>> THEN Append(acc, cur)
    ELSE IF Head(s) = "/" THEN SplitAcc(Tail(s), <<>>, Append(acc, cur))
    ELSE SplitAcc(Tail(s), Append(cur, Head(s)), acc)

\* s.split('/'): the segments between separators, empty ones included
Split(s) == SplitAcc(s, <<>>, <<>>)

\* parts.filter(Boolean): the non-empty segments
FilterNonEmpty(parts) == SelectSeq(parts, LAMBDA p : p # <<>>)

RECURSIVE Join(_)
\* parts.join('/')
Join(parts) ==
    IF parts = <<>> THEN <<>>
    ELSE IF Len(parts) = 1 THEN parts[1]
    ELSE parts[1] \o <<"/">> \o Join(Tail(parts))

\* parts.slice(n) with n counted from 0
Slice(parts, n) == IF n >= Len(parts) THEN <<>> ELSE SubSeq(parts, n + 1, Len(parts))

StartsWith(s, p) == Len(s) >= Len(p) /\ SubSeq(s, 1, Len(p)) = p

\* s.includes(tok) for an atomic token
Includes(s, tok) == \E i \in 1..Len(s) : s[i] = tok

RECURSIVE DropLeading(_, _)
DropLeading(s, tok) ==
    IF s # <<>> /\ Head(s) = tok THEN DropLeading(Tail(s), tok) ELSE s

RECURSIVE DropTrailing(_, _)
DropTrailing(s, tok) ==
    IF s # <<>> /\ s[Len(s)] = tok THEN DropTrailing(SubSeq(s, 1, Len(s) - 1), tok) ELSE s

\* url.trim()
Trim(s) == DropTrailing(DropLeading(s, " "), " ")

\* index of the first occurrence of tok (1-based), 0 when absent: indexOf
IndexOf(s, tok) ==
    IF Includes(s, tok) THEN CHOOSE i \in 1..Len(s) : s[i] = tok /\ \A j \in 1..(i-1) : s[j] # tok
    ELSE 0

(***************************************************************************)
(* core/skill-source.ts: GitHub URL normalisation.                         *)
(***************************************************************************)
\* /^[a-z]+:\/\//i matches: the string opens with a scheme
SchemeTokens == {"https://", "http://", "ssh://"}
SpecialSchemes == {"https://", "http://"}
HasScheme(s) == s # <<>> /\ s[1] \in SchemeTokens

\* tokens that cannot stand in a URL's authority (an invalid port, a space)
BadHostTokens == {":x", " "}

\* the authority and path of a URL string (scheme token first), as new URL()
\* splits them: a special scheme skips slashes before the host
UrlAfterScheme(u) ==
    IF u[1] \in SpecialSchemes THEN DropLeading(Tail(u), "/") ELSE Tail(u)

UrlAuthority(u) ==
    LET r == UrlAfterScheme(u)
        k == IndexOf(r, "/")
    IN IF k = 0 THEN r ELSE SubSeq(r, 1, k - 1)

\* new URL(urlString) does not throw
UrlParses(u) ==
    /\ (u[1] \in SpecialSchemes => UrlAuthority(u) # <<>>)
    /\ \A i \in 1..Len(UrlAuthority(u)) : UrlAuthority(u)[i] \notin BadHostTokens

\* parsed.pathname
UrlPathname(u) ==
    LET r == UrlAfterScheme(u)
        k == IndexOf(r, "/")
    IN IF k = 0 THEN (IF u[1] \in SpecialSchemes THEN <<"/">> ELSE <<>>)
       ELSE SubSeq(r, k, Len(r))

\* repo.replace(/\.git$/, '')
StripDotGit(seg) ==
    IF seg # <<>> /\ seg[Len(seg)] = ".git" THEN SubSeq(seg, 1, Len(seg) - 1) ELSE seg

\* a normaliser that keeps a leading github.com segment
KeepHostSegment(allParts) == allParts

\* if (parts[0] === 'github.com') parts.shift()
StripHostSegment(allParts) ==
    IF allParts # <<>> /\ allParts[1] = <<"github.com">> THEN Tail(allParts) ELSE allParts

\* a normaliser that keeps the filename of blob/raw URLs
KeepFilename(kind, sub0) == sub0

\* blob/raw URLs point to a file: the filename is dropped from the subpath
DropFilename(kind, sub0) ==
    IF kind # <<"tree">> /\ sub0 # <<>>
    THEN LET sp == Split(sub0) IN Join(SubSeq(sp, 1, Len(sp) - 1))
    ELSE sub0

\* the path of the URL, before it is cut into segments
\* location = url.trim() without a leading git+
GitPlusStripped(trimmed) ==
    IF trimmed # <<>> /\ trimmed[1] = "git+" THEN Tail(trimmed) ELSE trimmed

\* urlString: https:// is put before a location without a scheme
WithScheme(location) ==
    IF HasScheme(location) THEN location ELSE <<"https://">> \o location

\* parsed.pathname, or in the catch block the urlString without its scheme
RawPath(urlString) ==
    IF UrlParses(urlString) THEN UrlPathname(urlString)
    ELSE IF urlString[1] \in SpecialSchemes THEN Tail(urlString)
    ELSE urlString

GithubPathname(url) ==
    DropLeading(RawPath(WithScheme(GitPlusStripped(Trim(url)))), "/")

\* the degit location built from user, repo, and the rest of the segments
DegitLocation(user, repo, kind, branch, subpath, extraPath) ==
    IF kind \in {<<"tree">>, <<"blob">>, <<"raw">>} /\ branch # <<>>
    THEN IF subpath # <<>>
         THEN user \o <<"/">> \o repo \o <<"/">> \o subpath \o <<"#">> \o branch
         ELSE user \o <<"/">> \o repo \o <<"#">> \o branch
    ELSE IF extraPath # <<>>
         THEN user \o <<"/">> \o repo \o <<"/">> \o extraPath
         ELSE user \o <<"/">> \o repo

\* the third segment (tree, blob or raw when the URL has one)
KindSegment(parts) == IF Len(parts) >= 3 THEN parts[3] ELSE <<>>

NormalizeGithubUrl(url) ==
    With(GithubPathname(url), LAMBDA pathname :
    With(StripHostSegment(FilterNonEmpty(Split(pathname))), LAMBDA parts :
      IF Len(parts) < 2 THEN pathname
      ELSE DegitLocation(parts[1], StripDotGit(parts[2]), KindSegment(parts),
                         IF Len(parts) >= 4 THEN parts[4] ELSE <<>>,
                         DropFilename(KindSegment(parts), Join(Slice(parts, 4))),
                         Join(Slice(parts, 2)))))

(***************************************************************************)
(* core/skill-install.ts: the location parser of the sparse-checkout       *)
(* fetcher.                                                                *)
(***************************************************************************)
ParseGithubLocation(location) ==
    With(IndexOf(location, "#"), LAMBDA hashIndex :
    With(Split(IF hashIndex # 0 THEN SubSeq(location, 1, hashIndex - 1) ELSE location),
         LAMBDA parts :
      IF Len(parts) < 2
      THEN [ok |-> FALSE, user |-> <<>>, repo |-> <<>>, subpath |-> <<>>, branch |-> <<>>]
      ELSE [ok |-> TRUE, user |-> parts[1], repo |-> parts[2],
            subpath |-> Join(Slice(parts, 2)),
            branch |-> IF hashIndex # 0
                       THEN SubSeq(location, hashIndex + 1, Len(location)) ELSE <<>>]))

(***************************************************************************)
(* The process environment: cwd, HOME, path.resolve.                       *)
(***************************************************************************)
\* process.cwd() and os.homedir(), as lists of path segments
ProcessCwd == "w"
OsHomedir == "h"
Cwd == << <<ProcessCwd>> >>
HomeDir == << <<OsHomedir>> >>

RECURSIVE NormalizeSegs(_, _)
\* path normalisation: "" and "." vanish, ".." removes the segment before it
NormalizeSegs(segs, acc) ==
    IF segs = <<>> THEN acc
    ELSE IF Head(segs) = <<>> \/ Head(segs) = <<".">> THEN NormalizeSegs(Tail(segs), acc)
    ELSE IF Head(segs) = <<"..">>
         THEN NormalizeSegs(Tail(segs), IF acc = <<>> THEN acc ELSE SubSeq(acc, 1, Len(acc) - 1))
    ELSE NormalizeSegs(Tail(segs), Append(acc, Head(segs)))

\* an absolute path, written out: "/" before every segment
AbsString(segs) ==
    IF segs = <<>> THEN <<"/">>
    ELSE Flatten([i \in 1..Len(segs) |-> <<"/">> \o segs[i]])

\* path.resolve(p): absolute and normalised, relative paths taken from cwd
PathResolve(p) ==
    IF StartsWith(p, <<"/">>) THEN AbsString(NormalizeSegs(Split(p), <<>>))
    ELSE AbsString(NormalizeSegs(Cwd \o Split(p), <<>>))

IsAbsolute(p) == StartsWith(p, <<"/">>)

(***************************************************************************)
(* utils/registry.ts and lib/supabase.ts: the registry listing, cached for *)
(* the process.                                                            *)
(***************************************************************************)
NoCache == [set |-> FALSE, listing |-> <<>>]

\* if (!skillsCache): the call asks the network
QueriesNetwork(cache) == ~cache.set

\* getSkillsFromRegistry without the test of the cache: every call fetches
GetSkillsRefetching(cache, netNow) ==
    IF netNow.up
    THEN [ok |-> TRUE, cache |-> [set |-> TRUE, listing |-> netNow.listing],
          listing |-> netNow.listing]
    ELSE [ok |-> FALSE, cache |-> cache, listing |-> <<>>]

\* getSkillsFromRegistry: [ok, cache, listing]; a failed fetch caches nothing
GetSkillsFromRegistry(cache, netNow) ==
    IF cache.set THEN [ok |-> TRUE, cache |-> cache, listing |-> cache.listing]
    ELSE IF netNow.up
         THEN [ok |-> TRUE, cache |-> [set |-> TRUE, listing |-> netNow.listing],
               listing |-> netNow.listing]
         ELSE [ok |-> FALSE, cache |-> cache, listing |-> <<>>]

\* skills.find(skill => skill.name === name): index of the first match, 0 if none
FindSkillIndex(listing, name) ==
    IF \E i \in 1..Len(listing) : listing[i].name = name
    THEN CHOOSE i \in 1..Len(listing) :
            listing[i].name = name /\ \A j \in 1..(i-1) : listing[j].name # name
    ELSE 0

(***************************************************************************)
(* core/skill-source.ts: the resolver.                                     *)
(***************************************************************************)
IsGithubUrl(input) == Includes(input, "github.com")

\* a resolver that recognises local paths by their prefix only
IsLocalPathByPrefix(input, diskNow) ==
    \/ StartsWith(input, <<".", "/">>)
    \/ StartsWith(input, <<"..", "/">>)
    \/ StartsWith(input, <<"~", "/">>)
    \/ StartsWith(input, <<"/">>)

IsLocalPath(input, diskNow) ==
    \/ StartsWith(input, <<".", "/">>)
    \/ StartsWith(input, <<"..", "/">>)
    \/ StartsWith(input, <<"~", "/">>)
    \/ StartsWith(input, <<"/">>)
    \/ PathResolve(input) \in diskNow

\* the location of a local source: "~/" is expanded with HOME, then path.resolve
LocalLocation(input) ==
    IF StartsWith(input, <<"~", "/">>)
    THEN PathResolve(AbsString(HomeDir) \o <<"/">> \o Slice(input, 2))
    ELSE PathResolve(input)

ResolveError(input, err) ==
    [status |-> "error", type |-> "none", location |-> <<>>, originalInput |-> input,
     error |-> err]

ResolveOk(input, type, location) ==
    [status |-> "ok", type |-> type, location |-> location, originalInput |-> input,
     error |-> "none"]

\* a resolver that goes on to the github and local checks when the listing
\* cannot be fetched
ResolveSkillSourceOffline(input, cache, netNow, diskNow) ==
    With(GetSkillsFromRegistry(cache, netNow), LAMBDA fetched :
    With(FindSkillIndex(fetched.listing, input), LAMBDA idx :
      [cache |-> fetched.cache,
       res |->
         IF idx # 0
         THEN IF fetched.listing[idx].degit_path = <<>>
              THEN ResolveError(input, "no degit_path")
              ELSE ResolveOk(input, "shortcut", fetched.listing[idx].degit_path)
         ELSE IF IsGithubUrl(input)
         THEN ResolveOk(input, "github", NormalizeGithubUrl(input))
         ELSE IF IsLocalPath(input, diskNow)
         THEN ResolveOk(input, "local", LocalLocation(input))
         ELSE ResolveError(input, "Skill not found")]))

\* resolveSkillSource: [cache, res]
ResolveSkillSource(input, cache, netNow, diskNow) ==
    With(GetSkillsFromRegistry(cache, netNow), LAMBDA fetched :
    With(FindSkillIndex(fetched.listing, input), LAMBDA idx :
      [cache |-> fetched.cache,
       res |->
         IF ~fetched.ok THEN ResolveError(input, "Failed to fetch skills")
         ELSE IF idx # 0
         THEN IF fetched.listing[idx].degit_path = <<>>
              THEN ResolveError(input, "no degit_path")
              ELSE ResolveOk(input, "shortcut", fetched.listing[idx].degit_path)
         ELSE IF IsGithubUrl(input)
         THEN ResolveOk(input, "github", NormalizeGithubUrl(input))
         ELSE IF IsLocalPath(input, diskNow)
         THEN ResolveOk(input, "local", LocalLocation(input))
         ELSE ResolveError(input, "Skill not found")]))

(***************************************************************************)
(* constants.ts: the supported agents; the two scopes.                     *)
(***************************************************************************)
AGENTS == << [name |-> "Claude Code", flag |-> "claude", folderName |-> ".claude"],
             [name |-> "Codex", flag |-> "codex", folderName |-> ".codex"],
             [name |-> "Gemini", flag |-> "gemini", folderName |-> ".gemini"] >>

AgentFlags == {AGENTS[i].flag : i \in 1..Len(AGENTS)}

\* isGlobal: TRUE is the home directory, FALSE the current directory
Scopes == BOOLEAN

(***************************************************************************)
(* Inputs of the resolver.                                                 *)
(***************************************************************************)
\* all sequences over alphabet of length at most n
SeqsUpTo(alphabet, n) == UNION {[1..k -> alphabet] : k \in 0..n}

\* "/" before every segment
SlashPath(segs) == Flatten([i \in 1..Len(segs) |-> <<"/">> \o segs[i]])

\* what may stand before the path of a URL-like input
UrlHeads ==
    { <<"github.com">>,
      <<"https://", "github.com">>,
      <<"git+", "https://", "github.com">>,
      <<" ", "http://", "www.", "github.com">>,
      <<"ssh://", "git@", "github.com">>,
      <<"git@", "github.com", ":x">>,
      <<"example.com", "/", "github.com">> }

\* heads whose URL parses and whose host is github.com
GithubHostHeads ==
    { <<"github.com">>,
      <<"https://", "github.com">>,
      <<"git+", "https://", "github.com">>,
      <<" ", "http://", "www.", "github.com">>,
      <<"ssh://", "git@", "github.com">> }

UrlSegs == { <<"a">>, <<"b">>, <<"tree">>, <<"blob">>, <<"raw">> }

UrlSuffixes == { <<>>, <<".git">>, <<"/">> }

UrlInput(head, segs, suffix) == head \o SlashPath(segs) \o suffix

\* what the registry answers in the URL runs
EntryTinker ==
    [name |-> <<"tinker">>, degit_path |-> <<"org", "/", "skills", "/", "tinker">>,
     zip_path |-> <<>>]

EntryZip ==
    [name |-> <<"zipped">>, degit_path |-> <<"org", "/", "skills", "/", "zipped">>,
     zip_path |-> <<"zipped.zip">>]

EntryNoPath == [name |-> <<"tinker">>, degit_path |-> <<>>, zip_path |-> <<>>]

EntryUrlNamed ==
    [name |-> <<"github.com", "/", "a", "/", "tinker">>,
     degit_path |-> <<"org", "/", "skills", "/", "a">>, zip_path |-> <<>>]

EntryPathNamed ==
    [name |-> <<".", "/", "a">>, degit_path |-> <<"org", "/", "skills", "/", "b">>,
     zip_path |-> <<>>]

Listings ==
    { <<>>,
      <<EntryTinker, EntryZip>>,
      <<EntryNoPath, EntryTinker>>,
      <<EntryUrlNamed, EntryPathNamed, EntryTinker>> }

NetChoices == {[up |-> TRUE, listing |-> l] : l \in Listings}
                  \cup {[up |-> FALSE, listing |-> <<>>]}

\* local inputs: a head, then up to MaxPathSegs segments
ResolveHeads ==
    { <<>>, <<".">>, <<"..">>, <<"~">>, <<"tinker">>, <<"a">>,
      <<"github.com">>, <<"https://", "github.com">> }

ResolveSegs == { <<"tinker">>, <<"a">> }

\* the disk always holds the root, the current directory and the home directory
DiskBase == { <<"/">>, AbsString(Cwd), AbsString(HomeDir) }

DiskExtras ==
    { {},
      { <<"/", "w", "/", "tinker">> },
      { <<"/", "w", "/", "a">>, <<"/", "w", "/", "a", "/", "tinker">> },
      { <<"/", "w", "/", "tinker">>, <<"/", "w", "/", "github.com">>,
        <<"/", "w", "/", "github.com", "/", "a">>,
        <<"/", "w", "/", "github.com", "/", "a", "/", "tinker">> } }

DiskChoices == {DiskBase \cup e : e \in DiskExtras}

(***************************************************************************)
(* Directory trees. A tree is the sequence of its entries in the order the *)
(* file system enumerates them; an entry has a path (the names from the    *)
(* root of the tree), a kind and, for a file, a content. A content carries *)
(* what the frontmatter parser reads from it: whether it opens with a      *)
(* delimited header block, and the name and description given there.       *)
(***************************************************************************)
ManifestContent(name, description, body) ==
    [body |-> body, block |-> TRUE, name |-> name, description |-> description]

PlainContent(body) == [body |-> body, block |-> FALSE, name |-> "", description |-> ""]

FileEntry(path, content) == [path |-> path, kind |-> "file", content |-> content]

\* kind "dir" is a directory, "locked" a directory that cannot be read
DirEntry(path, kind) == [path |-> path, kind |-> kind, content |-> PlainContent("")]

EntryName(e) == e.path[Len(e.path)]

ParentOf(path) == SubSeq(path, 1, Len(path) - 1)

IsPrefix(p, q) == Len(p) <= Len(q) /\ SubSeq(q, 1, Len(p)) = p

\* fs.readdir(dir, { withFileTypes: true }): the entries directly in dir
ReadDir(tree, dir) ==
    SelectSeq(tree, LAMBDA e : Len(e.path) = Len(dir) + 1 /\ ParentOf(e.path) = dir)

\* the directory itself can be read (the root of a tree always can)
Readable(tree, dir) ==
    dir = <<>> \/ \E i \in 1..Len(tree) : tree[i].path = dir /\ tree[i].kind = "dir"

PathExists(tree, path) == \E i \in 1..Len(tree) : tree[i].path = path

IsFile(tree, path) == \E i \in 1..Len(tree) : tree[i].path = path /\ tree[i].kind = "file"

FileContent(tree, path) ==
    (CHOOSE e \in {tree[i] : i \in 1..Len(tree)} : e.path = path /\ e.kind = "file").content

(***************************************************************************)
(* core/skill-info.ts: the frontmatter parser, discovery.                  *)
(***************************************************************************)
NoMetadata == [ok |-> FALSE, name |-> "", description |-> ""]

\* parseFrontmatter: null unless the header block gives a name and a description
ParseFrontmatter(content) ==
    IF ~content.block THEN NoMetadata
    ELSE IF content.name = "" \/ content.description = "" THEN NoMetadata
    ELSE [ok |-> TRUE, name |-> content.name, description |-> content.description]

\* a validity check that accepts any SKILL.md file
HasManifestFile(tree, dir) ==
    LET skillMdPath == Append(dir, "SKILL.md")
    IN PathExists(tree, skillMdPath) /\ IsFile(tree, skillMdPath)

\* isValidSkillDirectory: SKILL.md exists, can be read as a file, and parses
IsValidSkillDirectory(tree, dir) ==
    LET skillMdPath == Append(dir, "SKILL.md")
    IN /\ PathExists(tree, skillMdPath)
       /\ IsFile(tree, skillMdPath)
       /\ ParseFrontmatter(FileContent(tree, skillMdPath)).ok

\* readSkillMetadata: null when SKILL.md cannot be read or does not parse
ReadSkillMetadata(tree, dir) ==
    LET skillMdPath == Append(dir, "SKILL.md")
    IN IF IsFile(tree, skillMdPath) THEN ParseFrontmatter(FileContent(tree, skillMdPath))
       ELSE NoMetadata

\* entry.name.startsWith('.git')
DotGitNames == {".git", ".github"}
StartsWithDotGit(name) == name \in DotGitNames

\* the else-if of the walk: a directory that is recursed into
Recursed(e) == e.kind # "file" /\ ~StartsWithDotGit(EntryName(e))

RECURSIVE SearchEntries(_, _, _, _)
\* the for loop of searchRecursively over the entries of dir; a directory that
\* cannot be read throws in readdir and is skipped
SearchEntries(tree, dir, entries, skills) ==
    IF entries = <<>> THEN skills
    ELSE
      LET e == Head(entries)
          found ==
            IF e.kind = "file" /\ EntryName(e) = "SKILL.md"
            THEN IF IsValidSkillDirectory(tree, dir) THEN Append(skills, dir) ELSE skills
            ELSE IF Recursed(e)
            THEN IF e.kind = "dir"
                 THEN SearchEntries(tree, e.path, ReadDir(tree, e.path), skills)
                 ELSE skills
            ELSE skills
      IN SearchEntries(tree, dir, Tail(entries), found)

\* findSkillDirectories(searchPath), searchPath being the directory root of tree
FindSkillDirectories(tree, root) ==
    IF Readable(tree, root) THEN SearchEntries(tree, root, ReadDir(tree, root), <<>>)
    ELSE <<>>

(***************************************************************************)
(* The trees discovery is run on: over five candidate directories, each    *)
(* absent, locked, or present with a SKILL.md of one of five kinds.        *)
(***************************************************************************)
CandidateDirs == { <<"x">>, <<".github">>, <<"x", "y">>, <<".github", "y">> }

DirStates == {"absent", "locked", "none", "valid", "noname", "nodesc", "noblock", "isdir"}

\* a shape gives every candidate directory and the root (<<>>) a state
Shapes ==
    { sh \in [CandidateDirs \cup {<<>>} -> DirStates] :
        /\ sh[<<>>] \notin {"absent", "locked"}
        /\ \A d \in CandidateDirs :
              sh[d] # "absent" => sh[ParentOf(d)] \notin {"absent", "locked"} }

\* the SKILL.md entry a state puts into its directory, if any
ManifestEntries(d, state) ==
    CASE state = "valid"  -> << FileEntry(Append(d, "SKILL.md"), ManifestContent("n", "d", "m")) >>
      [] state = "noname" -> << FileEntry(Append(d, "SKILL.md"), ManifestContent("", "d", "m")) >>
      [] state = "nodesc" -> << FileEntry(Append(d, "SKILL.md"), ManifestContent("n", "", "m")) >>
      [] state = "noblock" -> << FileEntry(Append(d, "SKILL.md"), PlainContent("m")) >>
      [] state = "isdir"  -> << DirEntry(Append(d, "SKILL.md"), "dir") >>
      [] OTHER -> <<>>

DirEntries(d, state) ==
    IF d = <<>> \/ state = "absent" THEN <<>>
    ELSE IF state = "locked" THEN << DirEntry(d, "locked") >>
    ELSE << DirEntry(d, "dir") >>

DirOrder == << <<>>, <<"x">>, <<".github">>, <<"x", "y">>, <<".github", "y">> >>

\* the tree of a shape; manifestFirst: SKILL.md is enumerated before the
\* subdirectories of its directory, otherwise after them
ShapeTree(sh, manifestFirst) ==
    LET dirs == Flatten([i \in 1..Len(DirOrder) |-> DirEntries(DirOrder[i], sh[DirOrder[i]])])
        manifests ==
            Flatten([i \in 1..Len(DirOrder) |-> ManifestEntries(DirOrder[i], sh[DirOrder[i]])])
    IN IF manifestFirst THEN manifests \o dirs ELSE dirs \o manifests

(***************************************************************************)
(* The content the installer can be pointed at: directories on the local   *)
(* disk, repositories on GitHub, archives of the registry.                 *)
(***************************************************************************)
\* a skill whose folder is called folder and whose manifest says name
SkillFolder(folder, name, body, extra) ==
    << DirEntry(<<folder>>, "dir"),
       FileEntry(<<folder, "SKILL.md">>, ManifestContent(name, "d", body)),
       FileEntry(<<folder, extra>>, PlainContent(body)) >>

\* ./my-skill and ./my-skill-v2: two versions of the skill named widget
TreeWidgetV1 ==
    << FileEntry(<<"SKILL.md">>, ManifestContent("widget", "d", "v1")),
       FileEntry(<<"a.txt">>, PlainContent("v1")) >>

TreeWidgetV2 ==
    << FileEntry(<<"SKILL.md">>, ManifestContent("widget", "d", "v2")),
       FileEntry(<<"b.txt">>, PlainContent("v2")) >>

\* ./multi-skills: two skills side by side, a directory whose manifest lacks a
\* description, and a skill below .github
TreeMulti ==
    SkillFolder("skill-one", "one", "v1", "x.txt")
        \o SkillFolder("skill-two", "two", "v1", "y.txt")
        \o << DirEntry(<<"broken">>, "dir"),
              FileEntry(<<"broken", "SKILL.md">>, ManifestContent("broken", "", "v1")),
              DirEntry(<<".github">>, "dir") >>
        \o << DirEntry(<<".github", "hid">>, "dir"),
              FileEntry(<<".github", "hid", "SKILL.md">>, ManifestContent("hidden", "d", "v1")) >>

\* ./dup-skills: two folders whose manifests both say widget; they share the
\* path SKILL.md and each has a file the other lacks
TreeDup ==
    SkillFolder("dup-a", "widget", "v1", "x.txt")
        \o SkillFolder("dup-b", "widget", "v2", "y.txt")

\* ./empty: a directory without any skill
TreeNone == << FileEntry(<<"README.md">>, PlainContent("v1")) >>

\* the tree at a location of the local disk; nothing when the path does not exist
LocalTree(location) ==
    CASE location = <<"/", "w", "/", "my-skill">> -> TreeWidgetV1
      [] location = <<"/", "w", "/", "my-skill-v2">> -> TreeWidgetV2
      [] location = <<"/", "w", "/", "multi-skills">> -> TreeMulti
      [] location = <<"/", "w", "/", "dup-skills">> -> TreeDup
      [] location = <<"/", "w", "/", "empty">> -> TreeNone
      [] OTHER -> <<>>

\* the local sources as paths of the disk
SourceDisk ==
    DiskBase \cup { <<"/", "w", "/", "my-skill">>, <<"/", "w", "/", "my-skill-v2">>,
                    <<"/", "w", "/", "multi-skills">>, <<"/", "w", "/", "dup-skills">>,
                    <<"/", "w", "/", "empty">> }

\* the entries below dir, with their paths taken from dir
Subtree(tree, dir) ==
    LET below == SelectSeq(tree, LAMBDA e : IsPrefix(dir, e.path) /\ e.path # dir)
    IN [i \in 1..Len(below) |-> [below[i] EXCEPT !.path = Slice(below[i].path, Len(dir))]]

\* the repositories that exist on GitHub: user/repo -> the tree of its main branch
RepoExists(user, repo) ==
    \/ (user = <<"a">> /\ repo \in { <<"b">>, <<"none">> })
    \/ (user = <<"org">> /\ repo = <<"skills">>)

RepoTree(user, repo) ==
    IF user = <<"a">> /\ repo = <<"b">> THEN TreeMulti
    ELSE IF user = <<"org">> /\ repo = <<"skills">>
    THEN SkillFolder("tinker", "widget", "v2", "b.txt")
            \o SkillFolder("zipped", "widget", "v1", "a.txt")
    ELSE TreeNone

\* the archive behind a zipUrl: one top-level folder wrapping the skill
ZipTree(zipUrl) == SkillFolder("zipped", "widget", "v1", "a.txt")

\* a path string owner/repo/sub/dir as tree path <<"sub", "dir">>: each segment one name
SegNames(segs) == [i \in 1..Len(segs) |-> segs[i][1]]

\* the directory names of a location's subpath; no subpath is the root
SubpathNames(subpath) == IF subpath = <<>> THEN <<>> ELSE SegNames(Split(subpath))

(***************************************************************************)
(* core/skill-install.ts: destinations and the copy of one skill.          *)
(* The agent folders are the set agentDirs of paths <<base, folder>>; the  *)
(* installed skills are a function from the destination paths that exist   *)
(* to the files below them, a file being [path, content].                  *)
(***************************************************************************)
GetAgentByFlag(flag) == CHOOSE a \in {AGENTS[i] : i \in 1..Len(AGENTS)} : a.flag = flag

\* the segments of a skill name between its "/"; a name the table does not
\* list has no "/" and is one segment
NameSegments(skillName) ==
    CASE skillName = ".." -> <<"..">>
      [] skillName = "." -> <<".">>
      [] skillName = "../x" -> <<"..", "x">>
      [] skillName = "../../.codex/skills/widget" -> <<"..", "..", ".codex", "skills", "widget">>
      [] skillName = "../../../h/.claude/skills/widget" ->
            <<"..", "..", "..", "h", ".claude", "skills", "widget">>
      [] skillName = "a/b" -> <<"a", "b">>
      [] OTHER -> <<skillName>>

RECURSIVE NormalizeJoined(_, _)
\* the normalisation of path.join: "." vanishes, ".." removes the segment before it
NormalizeJoined(parts, acc) ==
    IF parts = <<>> THEN acc
    ELSE IF Head(parts) = "." THEN NormalizeJoined(Tail(parts), acc)
    ELSE IF Head(parts) = ".."
         THEN NormalizeJoined(Tail(parts),
                              IF acc = <<>> THEN acc ELSE SubSeq(acc, 1, Len(acc) - 1))
    ELSE NormalizeJoined(Tail(parts), Append(acc, Head(parts)))

\* path.join(base, ...parts): a base directory stands for its absolute path,
\* and a ".." out of it leads to the directory that holds the base directories
PathJoin(base, parts) ==
    With(NormalizeJoined(<<"", base>> \o parts, <<>>), LAMBDA joined :
      IF joined # <<>> /\ joined[1] = "" THEN Tail(joined) ELSE joined)

\* path.join(base, agent.folderName, 'skills', skillName)
GetSkillInstallPath(skillName, agentFlag, isGlobal) ==
    PathJoin(IF isGlobal THEN OsHomedir ELSE ProcessCwd,
             <<GetAgentByFlag(agentFlag).folderName, "skills">> \o NameSegments(skillName))

\* the files below skillDir, with their paths taken from skillDir
FilesBelow(tree, skillDir) ==
    { [path |-> Slice(tree[i].path, Len(skillDir)), content |-> tree[i].content] :
        i \in { j \in 1..Len(tree) :
                  /\ tree[j].kind = "file"
                  /\ IsPrefix(skillDir, tree[j].path)
                  /\ tree[j].path # skillDir } }

\* a copy that replaces the destination by the source
FsCopyReplacing(destFiles, srcFiles) == srcFiles

\* fs.copy(src, dest, { overwrite: true }): every source file is written, a
\* file of the destination that the source does not have is left as it is
FsCopy(destFiles, srcFiles) ==
    srcFiles \cup { f \in destFiles : \A g \in srcFiles : g.path # f.path }

\* the tree as it is read once the SKILL.md of dir has disappeared
WithoutManifest(tree, dir) == SelectSeq(tree, LAMBDA e : e.path # Append(dir, "SKILL.md"))

\* an installer that names the destination after the source folder
FolderDestName(metadata, skillDir) ==
    IF skillDir = <<>> THEN "root" ELSE skillDir[Len(skillDir)]

\* the last path segment of the destination: the name of the manifest
DestName(metadata, skillDir) == metadata.name

\* fs.ensureDir(path.dirname(dest)) and the copy: the folder below the base
\* directory that holds dest, or is dest, exists afterwards
AgentDirOf(dest) == IF Len(dest) >= 2 THEN {SubSeq(dest, 1, 2)} ELSE {}

\* installSkillDirectory; fault is what goes wrong for this directory: "none",
\* "vanish" (SKILL.md is gone when it is read) or "copy" (fs.copy throws)
InstallSkillDirectory(inst, dirs, tree, skillDir, agentFlag, isGlobal, fault) ==
    With(ReadSkillMetadata(IF fault = "vanish" THEN WithoutManifest(tree, skillDir) ELSE tree,
                           skillDir), LAMBDA metadata :
    With(GetSkillInstallPath(DestName(metadata, skillDir), agentFlag, isGlobal), LAMBDA dest :
      IF ~metadata.ok
      THEN [ok |-> FALSE, error |-> "Invalid skill", name |-> "", dest |-> <<>>,
            installed |-> inst, agentDirs |-> dirs]
      ELSE IF fault = "copy"
      THEN [ok |-> FALSE, error |-> "copy failed", name |-> "", dest |-> <<>>,
            installed |-> inst, agentDirs |-> dirs \cup AgentDirOf(dest)]
      ELSE [ok |-> TRUE, error |-> "none", name |-> metadata.name, dest |-> dest,
            installed |->
                [p \in DOMAIN inst \cup {dest} |->
                    IF p = dest
                    THEN FsCopy(IF dest \in DOMAIN inst THEN inst[dest] ELSE {},
                                FilesBelow(tree, skillDir))
                    ELSE inst[p]],
            agentDirs |-> dirs \cup AgentDirOf(dest)]))

RECURSIVE InstallEachSkipInvalid(_, _, _, _, _, _, _, _)
\* an install loop that passes over a directory that cannot be installed
InstallEachSkipInvalid(acc, tree, skillDirs, i, agentFlag, isGlobal, fault, faultAt) ==
    IF i > Len(skillDirs) THEN acc
    ELSE
      With(InstallSkillDirectory(acc.installed, acc.agentDirs, tree, skillDirs[i],
                                 agentFlag, isGlobal,
                                 IF i = faultAt THEN fault ELSE "none"), LAMBDA r :
        InstallEachSkipInvalid(
            IF ~r.ok THEN acc
            ELSE [acc EXCEPT !.skillNames = Append(@, r.name),
                             !.dests = Append(@, r.dest),
                             !.srcFiles = Append(@, FilesBelow(tree, skillDirs[i])),
                             !.installed = r.installed,
                             !.agentDirs = r.agentDirs],
            tree, skillDirs, i + 1, agentFlag, isGlobal, fault, faultAt))

RECURSIVE InstallEach(_, _, _, _, _, _, _, _)
\* for (const skillDir of skillDirs) { installSkillDirectory; push }: the first
\* failure ends the loop, what was copied before it stays
InstallEach(acc, tree, skillDirs, i, agentFlag, isGlobal, fault, faultAt) ==
    IF i > Len(skillDirs) THEN acc
    ELSE
      With(InstallSkillDirectory(acc.installed, acc.agentDirs, tree, skillDirs[i],
                                 agentFlag, isGlobal,
                                 IF i = faultAt THEN fault ELSE "none"), LAMBDA r :
        IF ~r.ok
        THEN [acc EXCEPT !.status = "error", !.error = r.error, !.skillNames = <<>>,
                         !.installed = r.installed, !.agentDirs = r.agentDirs]
        ELSE InstallEach([acc EXCEPT !.skillNames = Append(@, r.name),
                                     !.dests = Append(@, r.dest),
                                     !.srcFiles =
                                         Append(@, FilesBelow(tree, skillDirs[i])),
                                     !.installed = r.installed,
                                     !.agentDirs = r.agentDirs],
                         tree, skillDirs, i + 1, agentFlag, isGlobal, fault, faultAt))

\* what an install returns (skillNames) or throws (error, cause), and the
\* file system it leaves
InstallResult(st) ==
    [status |-> "ok", error |-> "none", cause |-> "none", skillNames |-> <<>>,
     dests |-> <<>>, srcFiles |-> <<>>, manifestNames |-> <<>>, folderNames |-> <<>>,
     installed |-> st.installed, agentDirs |-> st.agentDirs, tmp |-> st.tmp,
     staged |-> FALSE, tempDir |-> <<>>, strategy |-> "none", noSkillsIn |-> <<>>,
     searched |-> FALSE]

Failed(r, error, cause) ==
    [r EXCEPT !.status = "error", !.error = error, !.cause = cause, !.skillNames = <<>>]

\* the name of the folder a discovered directory has in its source
FolderName(dir, rootName) == IF dir = <<>> THEN rootName ELSE dir[Len(dir)]

\* findSkillDirectories on the root, the "No skills found" error, the install loop
InstallDiscovered(r0, tree, root, rootName, agentFlag, isGlobal, fault, faultAt) ==
    With(FindSkillDirectories(tree, root), LAMBDA skillDirs :
    With([r0 EXCEPT
            !.searched = TRUE,
            !.manifestNames =
                [i \in 1..Len(skillDirs) |-> ReadSkillMetadata(tree, skillDirs[i]).name],
            !.folderNames =
                [i \in 1..Len(skillDirs) |-> FolderName(skillDirs[i], rootName)]],
         LAMBDA r :
      IF Len(skillDirs) = 0 THEN Failed(r, "No skills found", "none")
      ELSE InstallEach(r, tree, skillDirs, 1, agentFlag, isGlobal, fault, faultAt)))

\* a "No skills found" error that names nothing
NoSkillsUnnamed(r, named) == r

\* throw new Error(`No skills found in "${named}". ...`): the string the
\* message names
NoSkillsFoundIn(r, named) ==
    IF r.error = "No skills found" THEN [r EXCEPT !.noSkillsIn = named] ELSE r

\* an installer without the finally blocks
KeepTemp(tmp, tempDir) == tmp

\* fs.remove(tempDir).catch(() => {}) of the finally blocks
RemoveTemp(tmp, tempDir) == tmp \ {tempDir}

\* Date.now(): one millisecond passes with every operation
DateNow == ops

\* installFromLocal
InstallFromLocal(source, st, agentFlag, isGlobal, fault, faultAt) ==
    NoSkillsFoundIn(
        InstallDiscovered(InstallResult(st), LocalTree(source.location), <<>>,
                          source.location[Len(source.location)],
                          agentFlag, isGlobal, fault, faultAt),
        source.location)

\* installFromZip
\* the directory the skills are looked for in: the single top-level folder of
\* the archive when it has one, else where the archive was extracted to
ExtractedDir(entries) ==
    IF Len(entries) = 1 /\ entries[1].kind = "dir" THEN entries[1].path ELSE <<>>

InstallFromZip(zipUrl, source, st, agentFlag, isGlobal, fault, faultAt) ==
    With(<<"sun-install", DateNow>>, LAMBDA tempDir :
    With([InstallResult(st) EXCEPT !.tempDir = tempDir], LAMBDA r0 :
      [ (IF fault = "fetch" THEN Failed(r0, "Failed to download", "none")
         ELSE NoSkillsFoundIn(
                InstallDiscovered([r0 EXCEPT !.staged = TRUE, !.tmp = @ \cup {tempDir}],
                                  ZipTree(zipUrl),
                                  ExtractedDir(ReadDir(ZipTree(zipUrl), <<>>)),
                                  "zip", agentFlag, isGlobal, fault, faultAt),
                source.originalInput))
        EXCEPT !.tmp = RemoveTemp(@, tempDir)]))

\* npx degit <location> <tempDir>: the subpath of the repository, at the root
\* of tempDir; fails when the location names nothing that exists
DegitFetches(location, fault) ==
    With(ParseGithubLocation(location), LAMBDA loc :
      /\ fault # "fetch"
      /\ loc.ok
      /\ RepoExists(loc.user, loc.repo)
      /\ loc.branch \in {<<>>, <<"main">>})

DegitTree(location) ==
    With(ParseGithubLocation(location), LAMBDA loc :
      Subtree(RepoTree(loc.user, loc.repo), SubpathNames(loc.subpath)))

\* installFromGithub, the degit version
InstallFromGithubDegit(source, st, agentFlag, isGlobal, fault, faultAt) ==
    With(<<"sun-install", DateNow>>, LAMBDA tempDir :
    With([InstallResult(st) EXCEPT
             !.tempDir = tempDir, !.staged = TRUE, !.tmp = @ \cup {tempDir}], LAMBDA r0 :
      [ (IF ~DegitFetches(source.location, fault)
         THEN Failed(r0, "Failed to download from GitHub", "degit")
         ELSE NoSkillsFoundIn(
                InstallDiscovered(r0, DegitTree(source.location), <<>>, "repo",
                                  agentFlag, isGlobal, fault, faultAt),
                source.originalInput))
        EXCEPT !.tmp = RemoveTemp(@, tempDir)]))

\* git clone / sparse-checkout / checkout succeed
GitFetches(loc, fault) ==
    /\ fault # "fetch"
    /\ RepoExists(loc.user, loc.repo)
    /\ loc.branch \in {<<>>, <<"main">>}

\* installFromGithub, the sparse-checkout version: the catch block wraps
\* whatever was thrown inside the try
\* catch (error) { throw new Error('Failed to download from GitHub', cause) }
Caught(body) ==
    IF body.status = "error"
    THEN Failed(body, "Failed to download from GitHub", body.error)
    ELSE body

InstallFromGithubSparse(source, st, agentFlag, isGlobal, fault, faultAt) ==
    With(<<"skill-install", DateNow>>, LAMBDA tempDir :
    With(ParseGithubLocation(source.location), LAMBDA loc :
    With([InstallResult(st) EXCEPT !.tempDir = tempDir], LAMBDA r0 :
    With([r0 EXCEPT !.staged = TRUE, !.tmp = @ \cup {tempDir}], LAMBDA staged :
      IF ~loc.ok THEN Failed(r0, "Invalid GitHub location", "none")
      ELSE [ Caught(IF ~GitFetches(loc, fault) THEN Failed(staged, "git", "none")
                    ELSE NoSkillsFoundIn(
                           InstallDiscovered(staged, RepoTree(loc.user, loc.repo),
                                             SubpathNames(loc.subpath), "repo",
                                             agentFlag, isGlobal, fault, faultAt),
                           source.originalInput))
             EXCEPT !.tmp = RemoveTemp(@, tempDir)]))))

(***************************************************************************)
(* installSkill and removeSkill. The repository holds two versions of the  *)
(* installer: "A" downloads shortcuts as archives when the registry gives  *)
(* a zip_path and uses degit otherwise, "B" uses a sparse git checkout.    *)
(***************************************************************************)
\* getShortcutZipUrl(name): the zip_path of the registry entry, <<>> for null
GetShortcutZipUrl(name, cache, netNow) ==
    With(GetSkillsFromRegistry(cache, netNow), LAMBDA fetched :
    With(FindSkillIndex(fetched.listing, name), LAMBDA idx :
      IF fetched.ok /\ idx # 0 THEN fetched.listing[idx].zip_path ELSE <<>>))

\* the switch on source.type
InstallBySource(variant, source, zipUrl, st, agentFlag, isGlobal, fault, faultAt) ==
    IF source.type = "local"
    THEN [InstallFromLocal(source, st, agentFlag, isGlobal, fault, faultAt)
            EXCEPT !.strategy = "local"]
    ELSE IF variant = "B"
    THEN [InstallFromGithubSparse(source, st, agentFlag, isGlobal, fault, faultAt)
            EXCEPT !.strategy = "sparse"]
    ELSE IF source.type = "shortcut" /\ zipUrl # <<>>
    THEN [InstallFromZip(zipUrl, source, st, agentFlag, isGlobal, fault, faultAt)
            EXCEPT !.strategy = "zip"]
    ELSE [InstallFromGithubDegit(source, st, agentFlag, isGlobal, fault, faultAt)
            EXCEPT !.strategy = "degit"]

\* installSkill: the install result, with the source, the cache after the
\* registry lookups and whether trackDownload was called
InstallSkill(variant, skillInput, agentFlag, isGlobal, env, st, fault, faultAt) ==
    With(ResolveSkillSource(skillInput, env.cache, env.net, env.disk), LAMBDA resolved :
    With(resolved.res, LAMBDA source :
      IF source.status = "error"
      THEN [result |-> [Failed(InstallResult(st), source.error, "none")
                           EXCEPT !.strategy = "none"],
            source |-> source, cache |-> resolved.cache, tracked |-> FALSE]
      ELSE
        With(InstallBySource(variant, source,
                             IF variant = "A" /\ source.type = "shortcut"
                             THEN GetShortcutZipUrl(source.originalInput, resolved.cache,
                                                    env.net)
                             ELSE <<>>,
                             st, agentFlag, isGlobal, fault, faultAt), LAMBDA r :
          [result |-> r, source |-> source, cache |-> resolved.cache,
           tracked |-> r.status = "ok" /\ source.type = "shortcut"])))

\* a removeSkill that reports the removal without doing it
RemoveSkillReportOnly(skillName, agentFlag, isGlobal, fs) ==
    [returned |-> GetSkillInstallPath(skillName, agentFlag, isGlobal) \in DOMAIN fs.installed,
     installed |-> fs.installed, agentDirs |-> fs.agentDirs]

\* fs.pathExists(dest): dest is an installed skill, an agent folder, a base
\* directory, or a directory above one of them
DestExists(dest, fs) ==
    \/ \E p \in DOMAIN fs.installed : IsPrefix(dest, p)
    \/ \E d \in fs.agentDirs : IsPrefix(dest, d)
    \/ IsPrefix(dest, <<ProcessCwd>>)
    \/ IsPrefix(dest, <<OsHomedir>>)

\* fs.remove(dest): dest goes with everything below it
RemoveBelow(dest, fs) ==
    [returned |-> TRUE,
     installed |-> [p \in {q \in DOMAIN fs.installed : ~IsPrefix(dest, q)} |-> fs.installed[p]],
     agentDirs |-> {d \in fs.agentDirs : ~IsPrefix(dest, d)}]

\* removeSkill: [returned, installed, agentDirs]
RemoveSkill(skillName, agentFlag, isGlobal, fs) ==
    With(GetSkillInstallPath(skillName, agentFlag, isGlobal), LAMBDA dest :
      IF DestExists(dest, fs) THEN RemoveBelow(dest, fs)
      ELSE [returned |-> FALSE, installed |-> fs.installed, agentDirs |-> fs.agentDirs])

(***************************************************************************)
(* The installer as a state machine: installSkill and removeSkill calls on *)
(* one machine, at most MaxOps of them.                                    *)
(***************************************************************************)
DEFAULT_CONFIG == [defaultAgents |-> <<>>, firstRunComplete |-> FALSE]

NoInstalled == [p \in {} |-> {}]

InstallNet == [up |-> TRUE, listing |-> <<EntryTinker, EntryZip>>]

Init ==
    /\ net = InstallNet
    /\ skillsCache = NoCache
    /\ disk = SourceDisk
    /\ agentDirs = {}
    /\ installed = NoInstalled
    /\ tmpDirs = {}
    /\ procs = NoProcs
    /\ config = DEFAULT_CONFIG
    /\ ops = 0
    /\ last = [op |-> "none"]

\* what the user can type as the skill of sun add
InstallInputs ==
    { <<".", "/", "my-skill">>, <<".", "/", "my-skill-v2">>, <<".", "/", "multi-skills">>,
      <<".", "/", "dup-skills">>, <<".", "/", "empty">>, <<"tinker">>, <<"zipped">>, <<"nope">>,
      <<"github.com", "/", "a", "/", "b">>, <<"github.com", "/", "a">>,
      <<"github.com", "/", "a", "/", "none">>,
      <<"https://", "github.com", "/", "org", "/", "skills", "/", "tree", "/", "main",
        "/", "tinker">> }

Variants == {"A", "B"}

\* what can go wrong during an install: the download fails, the manifest of
\* the faultAt-th skill disappears before it is read, its copy fails
Faults == {"none", "fetch", "vanish", "copy"}

MaxSkillDirs == 2

Env == [cache |-> skillsCache, net |-> net, disk |-> disk]

Fs == [installed |-> installed, agentDirs |-> agentDirs, tmp |-> tmpDirs]

\* how the POST of trackDownload ends
TrackOutcomes == {"ok", "network error", "non-OK response"}

\* a trackDownload without the try/catch
TrackDownloadThrowing(outcome) ==
    [threw |-> outcome = "network error", recorded |-> outcome = "ok"]

\* trackDownload: fetch inside try { } catch { }; the response is not looked at
TrackDownload(outcome) == [threw |-> FALSE, recorded |-> outcome = "ok"]

\* if (source.type === 'shortcut') await trackDownload(...); return { skillNames, source }
AfterTracking(call, outcome) ==
    IF call.tracked /\ TrackDownload(outcome).threw
    THEN Failed(call.result, "fetch failed", "none")
    ELSE call.result

\* the fault is one that this call meets
FaultHappens(call, fault, faultAt) ==
    CASE fault = "none" -> faultAt = 1
      [] fault = "fetch" -> /\ faultAt = 1
                            /\ call.source.type \in {"shortcut", "github"}
                            /\ call.result.error \in {"Failed to download",
                                                      "Failed to download from GitHub"}
                            /\ call.result.cause \in {"none", "degit", "git"}
      [] fault \in {"vanish", "copy"} ->
            call.result.searched /\ faultAt <= Len(call.result.manifestNames)

InstallSkillStep(variant, skillInput, agentFlag, isGlobal, fault, faultAt) ==
    /\ \E call \in {InstallSkill(variant, skillInput, agentFlag, isGlobal, Env, Fs,
                                  fault, faultAt)} :
       \E outcome \in IF call.tracked THEN TrackOutcomes ELSE {"not called"} :
       \E r \in {AfterTracking(call, outcome)} :
       /\ FaultHappens(call, fault, faultAt)
       /\ skillsCache' = call.cache
       /\ installed' = r.installed
       /\ agentDirs' = r.agentDirs
       /\ tmpDirs' = r.tmp
       /\ ops' = ops + 1
       /\ last' = [op |-> "install", variant |-> variant, input |-> skillInput,
                   agentFlag |-> agentFlag, isGlobal |-> isGlobal, fault |-> fault,
                   faultAt |-> faultAt, noSkillsIn |-> r.noSkillsIn,
                   searched |-> r.searched,
                   source |-> call.source, tracked |-> call.tracked,
                   trackOutcome |-> outcome,
                   recorded |-> call.tracked /\ TrackDownload(outcome).recorded,
                   returned |-> call.result.skillNames,
                   status |-> r.status, error |-> r.error, cause |-> r.cause,
                   skillNames |-> r.skillNames, dests |-> r.dests,
                   srcFiles |-> r.srcFiles, manifestNames |-> r.manifestNames,
                   folderNames |-> r.folderNames, staged |-> r.staged,
                   tempDir |-> r.tempDir, strategy |-> r.strategy,
                   held |-> {d \in DOMAIN installed : \E i \in 1..Len(r.dests) : r.dests[i] = d}]
       /\ UNCHANGED <<procs, net, disk, config>>

InstallSkillAct ==
    /\ ops < MaxOps
    /\ \E variant \in Variants, skillInput \in InstallInputs, agentFlag \in AgentFlags,
          isGlobal \in Scopes, fault \in Faults, faultAt \in 1..MaxSkillDirs :
            InstallSkillStep(variant, skillInput, agentFlag, isGlobal, fault, faultAt)

\* names the user can ask to remove
RemoveNames == {"widget", "one", "my-skill"}

RemoveSkillStep(skillName, agentFlag, isGlobal) ==
    \E call \in {RemoveSkill(skillName, agentFlag, isGlobal, Fs)} :
       /\ installed' = call.installed
       /\ agentDirs' = call.agentDirs
       /\ ops' = ops + 1
       /\ last' = [op |-> "remove", name |-> skillName, agentFlag |-> agentFlag,
                   isGlobal |-> isGlobal, returned |-> call.returned]
       /\ UNCHANGED <<procs, net, skillsCache, disk, tmpDirs, config>>

RemoveSkillAct ==
    /\ ops < MaxOps
    /\ \E skillName \in RemoveNames, agentFlag \in AgentFlags, isGlobal \in Scopes :
        RemoveSkillStep(skillName, agentFlag, isGlobal)

Next == InstallSkillAct \/ RemoveSkillAct

Spec == Init /\ [][Next]_vars

(***************************************************************************)
(* core/config-manager.ts, core/agent-detect.ts and the target resolution  *)
(* of commands/add.ts and commands/remove.ts.                              *)
(***************************************************************************)
IsFirstRun(cfg) == ~cfg.firstRunComplete

GetDefaultAgents(cfg) == cfg.defaultAgents

\* a setDefaultAgents that leaves firstRunComplete as it was
SetDefaultAgentsOnly(cfg, agents) == [cfg EXCEPT !.defaultAgents = agents]

SetDefaultAgents(cfg, agents) == [defaultAgents |-> agents, firstRunComplete |-> TRUE]

\* detectLocalAgents(): the agents whose folder exists in the current directory
DetectLocalAgents(dirs) ==
    { AGENTS[i].flag : i \in { j \in 1..Len(AGENTS) :
                                 <<ProcessCwd, AGENTS[j].folderName>> \in dirs } }

SupportedFlags == [i \in 1..Len(AGENTS) |-> AGENTS[i].flag]

\* a flag loop that stops at the first flagged agent
FirstExplicitAgent(flags) ==
    LET all == SelectSeq(SupportedFlags, LAMBDA f : f \in flags.agents)
    IN IF all = <<>> THEN <<>> ELSE <<all[1]>>

\* the agents whose flag was passed, in the order of SUPPORTED_AGENTS
ExplicitAgents(flags) == SelectSeq(SupportedFlags, LAMBDA f : f \in flags.agents)

\* a scope that is local only when every target agent has a local folder
ResolveScopeAllLocal(forceGlobal, targetAgents, dirs) ==
    \/ forceGlobal
    \/ ~\A i \in 1..Len(targetAgents) : targetAgents[i] \in DetectLocalAgents(dirs)

\* isGlobal: forced by --global, else global exactly when no target agent
\* has a local folder
ResolveScope(forceGlobal, targetAgents, dirs) ==
    \/ forceGlobal
    \/ ~\E i \in 1..Len(targetAgents) : targetAgents[i] \in DetectLocalAgents(dirs)

Targets(agents, isGlobal, cfg, prompted) ==
    [ok |-> TRUE, error |-> "none", agents |-> agents, isGlobal |-> isGlobal,
     config |-> cfg, prompted |-> prompted]

NoTargets(cfg) ==
    [ok |-> FALSE, error |-> "No default agents configured", agents |-> <<>>,
     isGlobal |-> FALSE, config |-> cfg, prompted |-> FALSE]

\* resolveTargetAgents of add; selection is what the user ticks if prompted
ResolveTargetAgentsAdd(flags, cfg, dirs, selection) ==
    LET explicitAgents == ExplicitAgents(flags)
    IN IF Len(explicitAgents) > 0
       THEN Targets(explicitAgents, ResolveScope(flags.global, explicitAgents, dirs),
                    cfg, FALSE)
       ELSE IF IsFirstRun(cfg)
       THEN Targets(selection, ResolveScope(flags.global, selection, dirs),
                    SetDefaultAgents(cfg, selection), TRUE)
       ELSE IF Len(GetDefaultAgents(cfg)) = 0 THEN NoTargets(cfg)
       ELSE Targets(GetDefaultAgents(cfg),
                    ResolveScope(flags.global, GetDefaultAgents(cfg), dirs), cfg, FALSE)

\* resolveTargetAgents of remove: no first-run prompt
ResolveTargetAgentsRemove(flags, cfg, dirs) ==
    LET explicitAgents == ExplicitAgents(flags)
    IN IF Len(explicitAgents) > 0
       THEN Targets(explicitAgents, ResolveScope(flags.global, explicitAgents, dirs),
                    cfg, FALSE)
       ELSE IF Len(GetDefaultAgents(cfg)) = 0 THEN NoTargets(cfg)
       ELSE Targets(GetDefaultAgents(cfg),
                    ResolveScope(flags.global, GetDefaultAgents(cfg), dirs), cfg, FALSE)

(***************************************************************************)
(* addCommand and removeCommand: for every skill, every target agent. The  *)
(* accumulator carries the file system, the registry cache, the calls made *)
(* to installSkill / removeSkill and one result per skill.                 *)
(***************************************************************************)
\* the copies a call of installSkill completed, in order: destination and files
CopiesOf(r) == [n \in 1..Len(r.dests) |-> [dest |-> r.dests[n], files |-> r.srcFiles[n]]]

\* what goes wrong in the call for the i-th target agent: the copy of the
\* directory acc.broken.dir fails in the call for the agent acc.broken.agent
FaultFor(acc, i) == IF i = acc.broken.agent THEN "copy" ELSE "none"

RECURSIVE AddToAgentsUndoing(_, _, _, _, _, _)
\* an inner loop that takes back the copies of the call that failed
AddToAgentsUndoing(acc, res, skill, agents, i, isGlobal) ==
    IF i > Len(agents) THEN [acc |-> acc, res |-> res]
    ELSE
      With(InstallSkill("A", skill, agents[i], isGlobal,
                        [cache |-> acc.cache, net |-> net, disk |-> disk],
                        acc.fs, FaultFor(acc, i), acc.broken.dir), LAMBDA call :
      With(call.result, LAMBDA r :
      With([acc EXCEPT
              !.fs = [installed |-> r.installed, agentDirs |-> r.agentDirs,
                      tmp |-> r.tmp],
              !.cache = call.cache,
              !.calls = Append(@, [skill |-> skill, agentFlag |-> agents[i],
                                   isGlobal |-> isGlobal])], LAMBDA acc1 :
        IF r.status = "error"
        THEN [acc |-> [acc1 EXCEPT !.fs = acc.fs],
              res |-> [res EXCEPT !.error = r.error, !.copied = @ \o CopiesOf(r)]]
        ELSE AddToAgentsUndoing(acc1,
                         [res EXCEPT !.installedNames = r.skillNames,
                                     !.agents = Append(@, agents[i]),
                                     !.copied = @ \o CopiesOf(r)],
                         skill, agents, i + 1, isGlobal))))

RECURSIVE AddToAgents(_, _, _, _, _, _)
\* the inner loop of addCommand; a throw leaves it with result.error set, and
\* with the file system as the failed call left it. copied lists the copies
\* that were completed for this reference
AddToAgents(acc, res, skill, agents, i, isGlobal) ==
    IF i > Len(agents) THEN [acc |-> acc, res |-> res]
    ELSE
      With(InstallSkill("A", skill, agents[i], isGlobal,
                        [cache |-> acc.cache, net |-> net, disk |-> disk],
                        acc.fs, FaultFor(acc, i), acc.broken.dir), LAMBDA call :
      With(call.result, LAMBDA r :
      With([acc EXCEPT
              !.fs = [installed |-> r.installed, agentDirs |-> r.agentDirs,
                      tmp |-> r.tmp],
              !.cache = call.cache,
              !.calls = Append(@, [skill |-> skill, agentFlag |-> agents[i],
                                   isGlobal |-> isGlobal])], LAMBDA acc1 :
        IF r.status = "error"
        THEN [acc |-> acc1,
              res |-> [res EXCEPT !.error = r.error, !.copied = @ \o CopiesOf(r)]]
        ELSE AddToAgents(acc1,
                         [res EXCEPT !.installedNames = r.skillNames,
                                     !.agents = Append(@, agents[i]),
                                     !.copied = @ \o CopiesOf(r)],
                         skill, agents, i + 1, isGlobal))))

RECURSIVE AddSkillsStopAtFailure(_, _, _, _, _)
\* an outer loop without the try/catch: the first failed skill ends the command
AddSkillsStopAtFailure(acc, skills, k, agents, isGlobal) ==
    IF k > Len(skills) THEN acc
    ELSE
      With(AddToAgents(acc, [skill |-> skills[k], installedNames |-> <<>>,
                             agents |-> <<>>, error |-> "none", copied |-> <<>>],
                       skills[k], agents, 1, isGlobal), LAMBDA done :
        IF done.res.error # "none"
        THEN [done.acc EXCEPT !.results = Append(@, done.res)]
        ELSE AddSkillsStopAtFailure([done.acc EXCEPT !.results = Append(@, done.res)],
                                    skills, k + 1, agents, isGlobal))

RECURSIVE AddSkills(_, _, _, _, _)
\* the outer loop of addCommand: a failed skill does not stop the next one
AddSkills(acc, skills, k, agents, isGlobal) ==
    IF k > Len(skills) THEN acc
    ELSE
      With(AddToAgents(acc, [skill |-> skills[k], installedNames |-> <<>>,
                             agents |-> <<>>, error |-> "none", copied |-> <<>>],
                       skills[k], agents, 1, isGlobal), LAMBDA done :
        AddSkills([done.acc EXCEPT !.results = Append(@, done.res)],
                  skills, k + 1, agents, isGlobal))

\* fs.remove(dest) throws: the directory exists and cannot be deleted
RemoveThrows(skill, agentFlag, isGlobal, acc) ==
    /\ skill \in acc.locked
    /\ GetSkillInstallPath(skill, agentFlag, isGlobal) \in DOMAIN acc.fs.installed

RECURSIVE RemoveFromAgents(_, _, _, _, _, _)
\* the inner loop of removeCommand; a throw leaves it with result.error set
RemoveFromAgents(acc, res, skill, agents, i, isGlobal) ==
    IF i > Len(agents) THEN [acc |-> acc, res |-> res]
    ELSE IF RemoveThrows(skill, agents[i], isGlobal, acc)
    THEN [acc |-> [acc EXCEPT !.calls = Append(@, [skill |-> skill, agentFlag |-> agents[i],
                                                   isGlobal |-> isGlobal])],
          res |-> [res EXCEPT !.error = "EACCES"]]
    ELSE
      With(RemoveSkill(skill, agents[i], isGlobal, acc.fs), LAMBDA call :
        RemoveFromAgents([acc EXCEPT
                            !.fs.installed = call.installed,
                            !.fs.agentDirs = call.agentDirs,
                            !.calls = Append(@, [skill |-> skill, agentFlag |-> agents[i],
                                                 isGlobal |-> isGlobal])],
                         IF call.returned
                         THEN [res EXCEPT !.agents = Append(@, agents[i])]
                         ELSE [res EXCEPT !.notFoundIn = Append(@, agents[i])],
                         skill, agents, i + 1, isGlobal))

RECURSIVE RemoveSkills(_, _, _, _, _)
\* the outer loop of removeCommand
RemoveSkills(acc, skills, k, agents, isGlobal) ==
    IF k > Len(skills) THEN acc
    ELSE
      With(RemoveFromAgents(acc, [skill |-> skills[k], agents |-> <<>>,
                                  notFoundIn |-> <<>>, error |-> "none"],
                            skills[k], agents, 1, isGlobal), LAMBDA done :
        RemoveSkills([done.acc EXCEPT !.results = Append(@, done.res)],
                     skills, k + 1, agents, isGlobal))

(***************************************************************************)
(* Properties of the installer.                                            *)
(***************************************************************************)
\* {home if isGlobal else cwd}/{agent folder}/skills/{name}
ExpectedDest(name, agentFlag, isGlobal) ==
    << IF isGlobal THEN "h" ELSE "w",
       (CHOOSE a \in {AGENTS[i] : i \in 1..Len(AGENTS)} : a.flag = agentFlag).folderName,
       "skills", name >>

\* C2 as the spec states it: after a successful install to a destination that
\* held a previous installation, the destination holds exactly the files of
\* the newly installed source directory
C2_AsStated ==
    (last.op = "install" /\ last.status = "ok") =>
        \A i \in 1..Len(last.dests) :
            last.dests[i] \in last.held => installed[last.dests[i]] = last.srcFiles[i]

C5_DestinationByManifestName ==
    (last.op = "install" /\ last.status = "ok") =>
        /\ last.skillNames = last.manifestNames
        /\ Len(last.dests) = Len(last.manifestNames)
        /\ \A i \in 1..Len(last.dests) :
              /\ last.dests[i] =
                    ExpectedDest(last.manifestNames[i], last.agentFlag, last.isGlobal)
              /\ last.dests[i] \in DOMAIN installed
              /\ \E f \in installed[last.dests[i]] :
                    f.path = <<"SKILL.md">> /\ f.content.name = last.manifestNames[i]

\* a repository subpath called tinker whose manifest says widget was installed
C5_Witness ==
    /\ last.op = "install"
    /\ last.status = "ok"
    /\ last.input = <<"tinker">>
    /\ last.isGlobal
    /\ last.folderNames # last.manifestNames
    /\ last.skillNames = <<"widget">>
    /\ <<"h", ".codex", "skills", "widget">> \in DOMAIN installed

\* C8: removeSkill returns false and changes nothing when
\* {base}/{agent folder}/skills/{name} does not exist; when it exists it
\* deletes that directory, and nothing else, and returns true
C8_RemoveSkill ==
    [][ (last'.op = "remove" /\ ops' # ops) =>
          LET dest == ExpectedDest(last'.name, last'.agentFlag, last'.isGlobal)
          IN IF dest \in DOMAIN installed
             THEN /\ last'.returned
                  /\ DOMAIN installed' = DOMAIN installed \ {dest}
                  /\ \A p \in DOMAIN installed' : installed'[p] = installed[p]
                  /\ agentDirs' = agentDirs
             ELSE /\ ~last'.returned
                  /\ installed' = installed
                  /\ agentDirs' = agentDirs ]_vars

\* an installed skill was removed
C8_Witness ==
    /\ last.op = "remove"
    /\ last.returned
    /\ ExpectedDest(last.name, last.agentFlag, last.isGlobal) \notin DOMAIN installed

(***************************************************************************)
(* The resolver on inputs that mention github.com: resolveSkillSource,     *)
(* then parseGithubLocation on the location as installFromGithub does.     *)
(***************************************************************************)
\* the input is drawn first, then resolved
InitUrl ==
    /\ net = InstallNet
    /\ skillsCache = NoCache
    /\ disk = SourceDisk
    /\ agentDirs = {}
    /\ installed = NoInstalled
    /\ tmpDirs = {}
    /\ procs = NoProcs
    /\ config = DEFAULT_CONFIG
    /\ ops = 0
    /\ last \in { [op |-> "input", head |-> head, segs |-> segs, suffix |-> suffix] :
                    head \in UrlHeads, segs \in SeqsUpTo(UrlSegs, MaxUrlSegs),
                    suffix \in UrlSuffixes }

ResolveUrlAct ==
    /\ last.op = "input"
    /\ \E call \in {ResolveSkillSource(UrlInput(last.head, last.segs, last.suffix),
                                       skillsCache, net, disk)} :
        /\ skillsCache' = call.cache
        /\ ops' = ops + 1
        /\ last' = [op |-> "resolve", head |-> last.head, segs |-> last.segs,
                    suffix |-> last.suffix,
                    input |-> UrlInput(last.head, last.segs, last.suffix),
                    res |-> call.res,
                    parsed |-> ParseGithubLocation(call.res.location)]
        /\ UNCHANGED <<procs, net, disk, agentDirs, installed, tmpDirs, config>>

NextUrl == ResolveUrlAct

SpecUrl == InitUrl /\ [][NextUrl]_vars

(***************************************************************************)
(* The resolver on names and paths, against every registry and disk of the *)
(* catalogue; the listing is cached by the first call.                     *)
(***************************************************************************)
MaxResolves == 2

InitResolve ==
    /\ net \in NetChoices
    /\ skillsCache = NoCache
    /\ disk \in DiskChoices
    /\ agentDirs = {}
    /\ installed = NoInstalled
    /\ tmpDirs = {}
    /\ procs = NoProcs
    /\ config = DEFAULT_CONFIG
    /\ ops = 0
    /\ last = [op |-> "none"]

ResolveInputs ==
    { h \o SlashPath(p) : h \in ResolveHeads, p \in SeqsUpTo(ResolveSegs, MaxPathSegs) }

ResolveStep(input) ==
    /\ \E call \in {ResolveSkillSource(input, skillsCache, net, disk)} :
        /\ skillsCache' = call.cache
        /\ ops' = ops + 1
        /\ last' = [op |-> "resolve", input |-> input, res |-> call.res,
                    attempt |-> ops + 1, queried |-> QueriesNetwork(skillsCache)]
        /\ UNCHANGED <<procs, net, disk, agentDirs, installed, tmpDirs, config>>

ResolveAct == ops < MaxResolves /\ \E input \in ResolveInputs : ResolveStep(input)

\* the registry becomes reachable after a resolution
RegistryRecoversAct ==
    /\ ops < MaxResolves
    /\ last.op = "resolve"
    /\ ~net.up
    /\ \E n \in NetChoices : n.up /\ net' = n
    /\ last' = [op |-> "recovers"]
    /\ UNCHANGED <<procs, skillsCache, disk, agentDirs, installed, tmpDirs, config, ops>>

NextResolve == ResolveAct \/ RegistryRecoversAct

SpecResolve == InitResolve /\ [][NextResolve]_vars

(***************************************************************************)
(* Properties of the resolver.                                             *)
(***************************************************************************)
\* the input opens with one of the four path prefixes
HasPathPrefix(input) ==
    \/ StartsWith(input, <<".", "/">>)
    \/ StartsWith(input, <<"..", "/">>)
    \/ StartsWith(input, <<"~", "/">>)
    \/ StartsWith(input, <<"/">>)

\* the entries of the fetched listing whose name is the input
RegistryMatches(input) ==
    { i \in 1..Len(skillsCache.listing) : skillsCache.listing[i].name = input }

\* what C1 says of the inputs that match no registry entry
ResolvedPastRegistry(input, res) ==
    IF Includes(input, "github.com")
    THEN res.status = "ok" /\ res.type = "github"
    ELSE IF HasPathPrefix(input) \/ PathResolve(input) \in disk
    THEN res.status = "ok" /\ res.type = "local" /\ IsAbsolute(res.location)
    ELSE res.status = "error" /\ res.error = "Skill not found"

WrittenSegs(segs, suffix) ==
    IF suffix = <<".git">> /\ segs # <<>>
    THEN [segs EXCEPT ![Len(segs)] = @ \o <<".git">>]
    ELSE segs

\* owner/repo[/subpath][#branch]: at least two segments, none of them empty,
\* and a branch that is not empty when the marker is there
HasLocationForm(location) ==
    LET hashIndex == IndexOf(location, "#")
        path == IF hashIndex = 0 THEN location ELSE SubSeq(location, 1, hashIndex - 1)
        branch == IF hashIndex = 0 THEN <<>> ELSE SubSeq(location, hashIndex + 1, Len(location))
        parts == Split(path)
    IN /\ Len(parts) >= 2
       /\ \A i \in 1..Len(parts) : parts[i] # <<>>
       /\ hashIndex # 0 => (branch # <<>> /\ ~Includes(branch, "#") /\ ~Includes(branch, "/"))

InitDiscover ==
    /\ net = InstallNet
    /\ skillsCache = NoCache
    /\ disk = SourceDisk
    /\ agentDirs = {}
    /\ installed = NoInstalled
    /\ tmpDirs = {}
    /\ procs = NoProcs
    /\ config = DEFAULT_CONFIG
    /\ ops = 0
    /\ last \in { [op |-> "tree", shape |-> sh, manifestFirst |-> mf] :
                    sh \in Shapes, mf \in BOOLEAN }

DiscoverAct ==
    /\ last.op = "tree"
    /\ ops' = ops + 1
    /\ last' = [op |-> "discover", shape |-> last.shape, manifestFirst |-> last.manifestFirst,
                result |-> FindSkillDirectories(ShapeTree(last.shape, last.manifestFirst),
                                                <<>>)]
    /\ UNCHANGED <<procs, net, skillsCache, disk, agentDirs, installed, tmpDirs, config>>

NextDiscover == DiscoverAct

SpecDiscover == InitDiscover /\ [][NextDiscover]_vars

\* the directories of a shape that exist: the root and the candidates not absent
PresentDirs(sh) == { d \in DOMAIN sh : sh[d] # "absent" }

Listed(result, d) == \E i \in 1..Len(result) : result[i] = d

\* a name on the path from the root to d starts with ".git"
BelowDotGit(d) == \E i \in 1..Len(d) : d[i] \in {".git", ".github"}

MaxCmds == 2

\* ~/.sun/config.json: absent, or as saved by sun config, or as written by hand
ConfigChoices ==
    { DEFAULT_CONFIG,
      [defaultAgents |-> <<>>, firstRunComplete |-> TRUE],
      [defaultAgents |-> <<"claude">>, firstRunComplete |-> TRUE],
      [defaultAgents |-> <<"gemini", "codex">>, firstRunComplete |-> TRUE],
      [defaultAgents |-> <<"codex">>, firstRunComplete |-> FALSE] }

LocalDirChoices == SUBSET { <<ProcessCwd, ".claude">>, <<ProcessCwd, ".codex">> }

InitCmd ==
    /\ net = InstallNet
    /\ skillsCache = NoCache
    /\ disk = SourceDisk
    /\ agentDirs \in LocalDirChoices
    /\ installed = NoInstalled
    /\ tmpDirs = {}
    /\ procs = NoProcs
    /\ config \in ConfigChoices
    /\ ops = 0
    /\ last = [op |-> "none"]

CmdFlags ==
    { [global |-> g, agents |-> a] :
        g \in BOOLEAN, a \in { {}, {"claude"}, {"codex", "gemini"} } }

\* what the user ticks in the agent prompt: at least one agent
Selections == { <<"claude">>, <<"codex", "gemini">> }

AddLists == { << <<".", "/", "my-skill">> >>,
              << <<"nope">>, <<".", "/", "multi-skills">> >> }

RemoveLists == { <<"widget">>, <<"nope", "one">>, <<"one", "two">> }

\* no copy fails
NoBreak == [agent |-> 0, dir |-> 1]

NoCalls(fs, cache) ==
    [fs |-> fs, cache |-> cache, calls |-> <<>>, results |-> <<>>, locked |-> {},
     broken |-> NoBreak]

\* the copy that fails during an add: for which target agent, of which
\* discovered directory
Breaks == {NoBreak} \cup [agent : 1..MaxSkillDirs, dir : 1..MaxSkillDirs]

\* the skills whose installed directories cannot be deleted
LockedChoices == { {}, {"one"} }

\* the agents that have a folder in the current directory
LocalNow == { f \in AgentFlags : <<"w", GetAgentByFlag(f).folderName>> \in agentDirs }

CommandRecord(cmd, skills, flags, selection, targets, done) ==
    [op |-> "command", cmd |-> cmd, skills |-> skills, flags |-> flags,
     selection |-> selection,
     status |-> IF targets.ok THEN "ok" ELSE "error", error |-> targets.error,
     agents |-> targets.agents, isGlobal |-> targets.isGlobal,
     prompted |-> targets.prompted,
     calls |-> done.calls, results |-> done.results, broken |-> done.broken,
     configBefore |-> config, localBefore |-> LocalNow,
     changed |-> done.fs.installed # installed \/ done.fs.agentDirs # agentDirs]

AddCommandStep(skills, flags, selection, broken) ==
    \E targets \in {ResolveTargetAgentsAdd(flags, config, agentDirs, selection)} :
    \E done \in { IF targets.ok
                  THEN AddSkills([NoCalls(Fs, skillsCache) EXCEPT !.broken = broken],
                                 skills, 1,
                                 targets.agents, targets.isGlobal)
                  ELSE NoCalls(Fs, skillsCache) } :
        /\ targets.prompted \/ selection = <<>>
        /\ config' = targets.config
        /\ skillsCache' = done.cache
        /\ installed' = done.fs.installed
        /\ agentDirs' = done.fs.agentDirs
        /\ tmpDirs' = done.fs.tmp
        /\ ops' = ops + 1
        /\ last' = CommandRecord("add", skills, flags, selection, targets, done)
        /\ UNCHANGED <<procs, net, disk>>

AddCommandAct ==
    /\ ops < MaxCmds
    /\ \E skills \in AddLists, flags \in CmdFlags, selection \in Selections \cup {<<>>},
          broken \in Breaks :
          /\ (selection = <<>>) # (flags.agents = {} /\ IsFirstRun(config))
          /\ AddCommandStep(skills, flags, selection, broken)

RemoveCommandStep(skills, flags, locked) ==
    \E targets \in {ResolveTargetAgentsRemove(flags, config, agentDirs)} :
    \E done \in { IF targets.ok
                  THEN RemoveSkills([NoCalls(Fs, skillsCache) EXCEPT !.locked = locked],
                                    skills, 1, targets.agents, targets.isGlobal)
                  ELSE NoCalls(Fs, skillsCache) } :
        /\ installed' = done.fs.installed
        /\ agentDirs' = done.fs.agentDirs
        /\ ops' = ops + 1
        /\ last' = CommandRecord("remove", skills, flags, <<>>, targets, done)
        /\ UNCHANGED <<procs, net, skillsCache, disk, tmpDirs, config>>

RemoveCommandAct ==
    /\ ops < MaxCmds
    /\ \E skills \in RemoveLists, flags \in CmdFlags, locked \in LockedChoices :
          RemoveCommandStep(skills, flags, locked)

NextCmd == AddCommandAct \/ RemoveCommandAct

SpecCmd == InitCmd /\ [][NextCmd]_vars

(***************************************************************************)
(* Properties of the target resolution.                                    *)
(***************************************************************************)
\* the flagged agents, in the order claude, codex, gemini
Flagged(flags) == SelectSeq(<<"claude", "codex", "gemini">>, LAMBDA f : f \in flags.agents)

\* C6: with --global the scope is global whatever folders exist locally;
\* without it the scope is local if at least one target agent has its folder
\* in the current directory and global if none has; every call the command
\* makes, for every target agent, uses that one scope
C6_ScopeSelection ==
    (last.op = "command" /\ last.status = "ok") =>
        /\ last.isGlobal =
              (last.flags.global
                  \/ ~\E i \in 1..Len(last.agents) : last.agents[i] \in last.localBefore)
        /\ \A i \in 1..Len(last.calls) : last.calls[i].isGlobal = last.isGlobal
        /\ \A k \in 1..Len(last.results) :
              last.results[k].error = "none" =>
                  \A i \in 1..Len(last.agents) :
                      \E c \in 1..Len(last.calls) :
                          /\ last.calls[c].skill = last.results[k].skill
                          /\ last.calls[c].agentFlag = last.agents[i]
        /\ last.cmd = "add" =>
              \A k \in 1..Len(last.results), i \in 1..Len(last.agents) :
                  last.results[k].error = "none" =>
                      \A j \in 1..Len(last.results[k].installedNames) :
                          ExpectedDest(last.results[k].installedNames[j], last.agents[i],
                                       last.isGlobal) \in DOMAIN installed

\* an add without --global for two agents, one of them with a local folder,
\* installed locally for both
C6_Witness ==
    /\ last.op = "command"
    /\ last.cmd = "add"
    /\ ~last.flags.global
    /\ last.agents = <<"codex", "gemini">>
    /\ last.localBefore = {"codex"}
    /\ ~last.isGlobal
    /\ <<"w", ".gemini", "skills", "widget">> \in DOMAIN installed

\* what C7 says of a command run without agent flags and with no saved defaults
FailsUnconfigured ==
    /\ last.status = "error"
    /\ last.error = "No default agents configured"
    /\ last.calls = <<>>
    /\ ~last.changed
    /\ config = last.configBefore

\* C7 as the spec states it: the flagged agents if any flag is passed, else
\* the saved default agents, else the command fails with 'No default agents
\* configured' and installs or removes nothing
C7_AsStated ==
    last.op = "command" =>
        IF last.flags.agents # {}
        THEN last.status = "ok" /\ last.agents = Flagged(last.flags)
        ELSE IF last.configBefore.defaultAgents # <<>>
        THEN last.status = "ok" /\ last.agents = last.configBefore.defaultAgents
        ELSE FailsUnconfigured

\* C7, amended: if any agent flag is passed the targets are exactly the
\* flagged agents; otherwise add, while the configuration is not marked
\* firstRunComplete, asks the user, saves the answer as the defaults and
\* targets it, whatever defaults were saved; otherwise (remove, or add after
\* the first run) the targets are the saved defaults, and with no saved
\* defaults the command fails with 'No default agents configured' and
\* installs or removes nothing
C7_AgentSelection ==
    last.op = "command" =>
        IF last.flags.agents # {}
        THEN /\ last.status = "ok"
             /\ last.agents = Flagged(last.flags)
             /\ config = last.configBefore
        ELSE IF last.cmd = "add" /\ ~last.configBefore.firstRunComplete
        THEN /\ last.status = "ok"
             /\ last.prompted
             /\ last.selection # <<>>
             /\ last.agents = last.selection
             /\ config = [defaultAgents |-> last.selection, firstRunComplete |-> TRUE]
        ELSE IF last.configBefore.defaultAgents # <<>>
        THEN /\ last.status = "ok"
             /\ last.agents = last.configBefore.defaultAgents
             /\ config = last.configBefore
        ELSE FailsUnconfigured

\* a remove without flags and without saved defaults failed, with a skill
\* installed that it could have removed
C7_Witness ==
    /\ last.op = "command"
    /\ last.cmd = "remove"
    /\ last.flags.agents = {}
    /\ last.configBefore.defaultAgents = <<>>
    /\ last.status = "error"
    /\ last.skills = <<"widget">>
    /\ \E p \in DOMAIN installed : p[4] = "widget"

(***************************************************************************)
(* core/skill-hash.ts: the content hash. File names and contents are the   *)
(* strings of the trees above; their characters are given by a table, and  *)
(* a string the table does not list stands as one token.                   *)
(***************************************************************************)
MaxNameLen == 3
MaxBodyLen == 2
MaxHashFiles == 2

\* the strings over a and b, as their characters
CharTable ==
    [ a |-> <<"a">>, b |-> <<"b">>, aa |-> <<"a", "a">>, ab |-> <<"a", "b">>,
      ba |-> <<"b", "a">>, bb |-> <<"b", "b">>, aaa |-> <<"a", "a", "a">>,
      aab |-> <<"a", "a", "b">>, aba |-> <<"a", "b", "a">>, abb |-> <<"a", "b", "b">>,
      baa |-> <<"b", "a", "a">>, bab |-> <<"b", "a", "b">>, bba |-> <<"b", "b", "a">>,
      bbb |-> <<"b", "b", "b">>, aaaa |-> <<"a", "a", "a", "a">>,
      aaab |-> <<"a", "a", "a", "b">>, aaba |-> <<"a", "a", "b", "a">>,
      aabb |-> <<"a", "a", "b", "b">>, abaa |-> <<"a", "b", "a", "a">>,
      abab |-> <<"a", "b", "a", "b">>, abba |-> <<"a", "b", "b", "a">>,
      abbb |-> <<"a", "b", "b", "b">>, baaa |-> <<"b", "a", "a", "a">>,
      baab |-> <<"b", "a", "a", "b">>, baba |-> <<"b", "a", "b", "a">>,
      babb |-> <<"b", "a", "b", "b">>, bbaa |-> <<"b", "b", "a", "a">>,
      bbab |-> <<"b", "b", "a", "b">>, bbba |-> <<"b", "b", "b", "a">>,
      bbbb |-> <<"b", "b", "b", "b">> ]

\* the file names the table spells out
SpelledNames ==
    {"a", "b", "aa", "ab", "ba", "bb", "aaa", "aab", "aba", "abb", "baa", "bab", "bba",
     "bbb", "aaaa", "aaab", "aaba", "aabb", "abaa", "abab", "abba", "abbb", "baaa", "baab",
     "baba", "babb", "bbaa", "bbab", "bbba", "bbbb"}

\* the characters of a string
Chars(s) ==
    IF s = "" THEN <<>>
    ELSE IF s \in SpelledNames THEN CharTable[s]
    ELSE <<s>>

\* charCodeAt: "/" sorts before the capitals, the capitals before the small letters
CharCode(ch) ==
    CASE ch = "/" -> 47
      [] ch = "SKILL.md" -> 83
      [] ch = "a" -> 97
      [] ch = "b" -> 98
      [] ch = "c" -> 99
      [] OTHER -> 120

RECURSIVE StringLess(_, _)
\* s < t for strings, the comparison of Array.prototype.sort() without a comparator
StringLess(s, t) ==
    IF t = <<>> THEN FALSE
    ELSE IF s = <<>> THEN TRUE
    ELSE IF CharCode(Head(s)) # CharCode(Head(t)) THEN CharCode(Head(s)) < CharCode(Head(t))
    ELSE StringLess(Tail(s), Tail(t))

\* path.relative(skillPath, file): the names from the skill directory, "/" between them
RelativePath(path) == Join([i \in 1..Len(path) |-> Chars(path[i])])

\* the bytes fs.readFile gives for a content
ContentBytes(content) ==
    IF content.block
    THEN <<"---">> \o Chars(content.name) \o <<":">> \o Chars(content.description)
            \o <<"---">> \o Chars(content.body)
    ELSE Chars(content.body)

RECURSIVE WalkEntries(_, _, _)
\* walk(currentDir) of getAllFiles over the entries readdir gave: a directory is
\* walked, a file is pushed; a directory that cannot be read throws in readdir
WalkEntries(tree, entries, acc) ==
    IF entries = <<>> \/ ~acc.ok THEN acc
    ELSE WalkEntries(tree, Tail(entries),
                     IF Head(entries).kind = "dir"
                     THEN WalkEntries(tree, ReadDir(tree, Head(entries).path), acc)
                     ELSE IF Head(entries).kind = "locked"
                     THEN [acc EXCEPT !.ok = FALSE]
                     ELSE [acc EXCEPT !.files = Append(@, Head(entries).path)])

RECURSIVE InsertSorted(_, _)
InsertSorted(sorted, path) ==
    IF sorted = <<>> THEN <<path>>
    ELSE IF StringLess(RelativePath(path), RelativePath(Head(sorted)))
    THEN <<path>> \o sorted
    ELSE <<Head(sorted)>> \o InsertSorted(Tail(sorted), path)

RECURSIVE SortedFrom(_, _)
SortedFrom(files, sorted) ==
    IF files = <<>> THEN sorted
    ELSE SortedFrom(Tail(files), InsertSorted(sorted, Head(files)))

\* a getAllFiles that returns the files as the walk met them
KeepEnumerated(files) == files

\* files.sort(): all paths open with the same skillPath, so the order is that
\* of the relative paths
SortFiles(files) == SortedFrom(files, <<>>)

\* getAllFiles(dir), dir being the root of tree: [ok, files]
GetAllFiles(tree) ==
    With(WalkEntries(tree, ReadDir(tree, <<>>), [ok |-> TRUE, files |-> <<>>]), LAMBDA walked :
      [ok |-> walked.ok, files |-> SortFiles(walked.files)])

RECURSIVE HashUpdates(_, _, _)
\* hash.update(relativePath); hash.update(content) for every file: the bytes
\* the digest is fed, one after the other
HashUpdates(tree, files, stream) ==
    IF files = <<>> THEN stream
    ELSE HashUpdates(tree, Tail(files),
                     stream \o RelativePath(Head(files))
                            \o ContentBytes(FileContent(tree, Head(files))))

\* createHash('sha256').update(...).digest('hex').slice(0, 12), the digest taken
\* as free of collisions: it stands for the bytes it was fed
Sha256Prefix(stream) == <<"sha256">> \o stream

\* computeContentHash(skillPath), skillPath being the root of tree: [ok, hash]
ComputeContentHash(tree) ==
    With(GetAllFiles(tree), LAMBDA got :
      IF ~got.ok THEN [ok |-> FALSE, hash |-> <<>>]
      ELSE IF Len(got.files) = 0 THEN [ok |-> TRUE, hash |-> Sha256Prefix(<<>>)]
      ELSE [ok |-> TRUE, hash |-> Sha256Prefix(HashUpdates(tree, got.files, <<>>))])

(***************************************************************************)
(* The hasher as a state machine: a skill directory is drawn, then it is   *)
(* hashed while the file system enumerates it in some order, or one of its *)
(* files is renamed and it is hashed again.                                *)
(***************************************************************************)
HashNames == {n \in SpelledNames : Len(CharTable[n]) <= MaxNameLen}

HashBodies == {""} \cup {n \in SpelledNames : Len(CharTable[n]) <= MaxBodyLen}

\* the files directly in the skill directory: at most MaxHashFiles, names distinct
RootFileLists ==
    { fl \in UNION {[1..k -> HashNames \X HashBodies] : k \in 0..MaxHashFiles} :
        \A i \in 1..(Len(fl) - 1) : StringLess(Chars(fl[i][1]), Chars(fl[i + 1][1])) }

RootFiles(files) ==
    [i \in 1..Len(files) |-> FileEntry(<<files[i][1]>>, PlainContent(files[i][2]))]

\* the subdirectory c of the skill directory: absent, empty, or holding a file
SubDirs ==
    { <<>>,
      << DirEntry(<<"c">>, "dir") >>,
      << DirEntry(<<"c">>, "dir"), FileEntry(<<"c", "a">>, PlainContent("b")) >> }

HashTrees == { RootFiles(fl) \o sub : fl \in RootFileLists, sub \in SubDirs }

InitHash ==
    /\ net = [up |-> FALSE, listing |-> <<>>]
    /\ skillsCache = NoCache
    /\ disk \in HashTrees
    /\ agentDirs = {}
    /\ installed = NoInstalled
    /\ tmpDirs = {}
    /\ procs = NoProcs
    /\ config = DEFAULT_CONFIG
    /\ ops = 0
    /\ last = [op |-> "init"]

\* the orders a file system can enumerate the entries of tree in
Enumerations(tree) ==
    { [i \in 1..Len(tree) |-> tree[p[i]]] :
        p \in { q \in [1..Len(tree) -> 1..Len(tree)] :
                  \A i, j \in 1..Len(tree) : q[i] = q[j] => i = j } }

\* the files of a tree as (relative path, bytes) pairs
FilePairs(tree) ==
    { <<RelativePath(tree[i].path), ContentBytes(tree[i].content)>> :
        i \in {j \in 1..Len(tree) : tree[j].kind = "file"} }

ComputeContentHashAct ==
    /\ last.op = "init"
    /\ \E stored \in {ComputeContentHash(disk)}, pairs \in {FilePairs(disk)} :
       \E enumerated \in Enumerations(disk) :
       \E h \in {ComputeContentHash(enumerated)} :
          /\ last' = [op |-> "hash", ok |-> h.ok, hash |-> h.hash,
                      walked |-> WalkEntries(enumerated, ReadDir(enumerated, <<>>),
                                             [ok |-> TRUE, files |-> <<>>]).files,
                      pairs |-> pairs,
                      stored |-> stored.hash]
          /\ UNCHANGED <<procs, net, skillsCache, disk, agentDirs, installed, tmpDirs, config, ops>>

\* fs.rename of a file of the skill directory to a name that is free there;
\* the contents stay
RenameFileAct ==
    /\ last.op = "init"
    /\ \E before \in {ComputeContentHash(disk)} :
       \E i \in 1..Len(disk), newName \in HashNames :
          /\ disk[i].kind = "file"
          /\ Len(disk[i].path) = 1
          /\ ~PathExists(disk, <<newName>>)
          /\ disk' = [disk EXCEPT ![i].path = <<newName>>]
          /\ last' = [op |-> "rename", from |-> disk[i].path, to |-> <<newName>>,
                      before |-> before,
                      after |-> ComputeContentHash(disk')]
          /\ UNCHANGED <<procs, net, skillsCache, agentDirs, installed, tmpDirs, config, ops>>

NextHash == ComputeContentHashAct \/ RenameFileAct

SpecHash == InitHash /\ [][NextHash]_vars

\* C11 as the spec states it: renaming a file of the skill directory, the
\* contents of all files unchanged, changes the content hash
C11_AsStated ==
    last.op = "rename" => last.after.hash # last.before.hash

\* C12: the content hash depends only on the set of (relative path, bytes)
\* pairs of the directory. In whatever order the file system enumerates the
\* entries, the hash is the same, and a directory without files has the hash
\* of the empty string
RECURSIVE PairsStream(_)
\* the pairs of a set, the one with the least path first, written one after
\* the other
PairsStream(pairs) ==
    IF pairs = {} THEN <<>>
    ELSE With(CHOOSE p \in pairs : \A q \in pairs : q = p \/ StringLess(p[1], q[1]),
              LAMBDA p : p[1] \o p[2] \o PairsStream(pairs \ {p}))

C12_OrderIndependent ==
    last.op = "hash" =>
        /\ last.ok
        /\ last.hash = last.stored
        /\ last.hash = Sha256Prefix(PairsStream(last.pairs))
        /\ (last.pairs = {} => last.hash = Sha256Prefix(<<>>))

\* a directory with two files was hashed after the file system enumerated
\* them in an order that is not the sorted one
C12_Witness ==
    /\ last.op = "hash"
    /\ Len(last.walked) >= 2
    /\ StringLess(RelativePath(last.walked[2]), RelativePath(last.walked[1]))

(***************************************************************************)
(* core/skill-info.ts: findSkillInstallations, and the show command that   *)
(* reports what it finds.                                                  *)
(***************************************************************************)
RECURSIVE SeqOfSet(_)
\* the members of a set one after the other, in an order of TLC's choosing
SeqOfSet(set) ==
    IF set = {} THEN <<>>
    ELSE With(CHOOSE x \in set : TRUE, LAMBDA x : <<x>> \o SeqOfSet(set \ {x}))

\* the directories the files of a set lie in, the skill directory itself left out
DirsOf(files) ==
    UNION { {SubSeq(f.path, 1, k) : k \in 1..(Len(f.path) - 1)} : f \in files }

\* the directory tree of an installed skill: its directories, then its files
TreeOf(files) ==
    With(SeqOfSet({d \in DirsOf(files) : Len(d) = 1}) \o SeqOfSet({d \in DirsOf(files) : Len(d) > 1}),
         LAMBDA dirs :
    With(SeqOfSet(files), LAMBDA fl :
      [i \in 1..Len(dirs) |-> DirEntry(dirs[i], "dir")]
          \o [i \in 1..Len(fl) |-> FileEntry(fl[i].path, fl[i].content)]))

\* the fixed locations: process.cwd() first, os.homedir() second, every agent in each
Candidates ==
    [i \in 1..(2 * Len(AGENTS)) |->
        [isGlobal |-> i > Len(AGENTS),
         agent |-> AGENTS[((i - 1) % Len(AGENTS)) + 1].flag]]

RECURSIVE FindInCandidates(_, _, _, _, _)
\* the two loops of findSkillInstallations. broken names what cannot be read:
\* [dest, what], what being "manifest" (SKILL.md) or "content" (another file
\* or a subdirectory); readSkillMetadata catches, computeContentHash throws
FindInCandidates(skillName, inst, broken, i, acc) ==
    IF i > Len(Candidates) \/ ~acc.ok THEN acc
    ELSE
      With(GetSkillInstallPath(skillName, Candidates[i].agent, Candidates[i].isGlobal),
           LAMBDA skillPath :
        IF skillPath \notin DOMAIN inst
        THEN FindInCandidates(skillName, inst, broken, i + 1, acc)
        ELSE
          With(IF [dest |-> skillPath, what |-> "manifest"] \in broken THEN NoMetadata
               ELSE ReadSkillMetadata(TreeOf(inst[skillPath]), <<>>), LAMBDA metadata :
            IF ~metadata.ok
            THEN FindInCandidates(skillName, inst, broken, i + 1, acc)
            ELSE
              With(IF [dest |-> skillPath, what |-> "content"] \in broken
                   THEN [ok |-> FALSE, hash |-> <<>>]
                   ELSE ComputeContentHash(TreeOf(inst[skillPath])), LAMBDA hashed :
                IF ~hashed.ok THEN [acc EXCEPT !.ok = FALSE]
                ELSE FindInCandidates(skillName, inst, broken, i + 1,
                        [acc EXCEPT !.installations =
                            Append(@, [agent |-> Candidates[i].agent,
                                       path |-> skillPath,
                                       isGlobal |-> Candidates[i].isGlobal,
                                       metadata |-> metadata,
                                       contentHash |-> hashed.hash])]))))

\* findSkillInstallations(skillName): [ok, installations]; not ok is a rejection
FindSkillInstallations(skillName, inst, broken) ==
    FindInCandidates(skillName, inst, broken, 1, [ok |-> TRUE, installations |-> <<>>])

\* showCommand(skillName) for the name of a skill: what it reports
ShowCommand(found) ==
    IF ~found.ok THEN "rejected"
    ELSE IF Len(found.installations) = 0 THEN "not installed"
    ELSE IF Cardinality({found.installations[i].contentHash :
                            i \in 1..Len(found.installations)}) > 1
    THEN "Multiple versions detected"
    ELSE "Installed in"

(***************************************************************************)
(* The show command as a state machine: some of the fixed locations hold   *)
(* an installation of the skill, then findSkillInstallations and show run. *)
(***************************************************************************)
MaxInstalled == 2

InstalledFile(name, content) == [path |-> <<name>>, content |-> content]

\* what a location can hold under the name widget
InstalledContents ==
    { { InstalledFile("SKILL.md", ManifestContent("widget", "d", "m")),
        InstalledFile("ab", PlainContent("a")), InstalledFile("aba", PlainContent("a")) },
      { InstalledFile("SKILL.md", ManifestContent("widget", "d", "m")),
        InstalledFile("ba", PlainContent("a")), InstalledFile("aba", PlainContent("a")) },
      { InstalledFile("SKILL.md", ManifestContent("widget", "d", "m")),
        InstalledFile("ab", PlainContent("b")) },
      { InstalledFile("SKILL.md", ManifestContent("widget", "d", "m")),
        [path |-> <<"c", "ab">>, content |-> PlainContent("b")] },
      { InstalledFile("SKILL.md", ManifestContent("widget", "", "m")),
        InstalledFile("ab", PlainContent("a")) },
      { InstalledFile("ab", PlainContent("a")) } }

ShowNames == {"widget", "gadget"}

WidgetPaths ==
    { GetSkillInstallPath("widget", Candidates[i].agent, Candidates[i].isGlobal) :
        i \in 1..Len(Candidates) }

InitShow ==
    /\ net = [up |-> FALSE, listing |-> <<>>]
    /\ skillsCache = NoCache
    /\ disk = {}
    /\ agentDirs = {}
    /\ \E dests \in {d \in SUBSET WidgetPaths : Cardinality(d) <= MaxInstalled} :
          installed \in [dests -> InstalledContents]
    /\ tmpDirs = {}
    /\ procs = NoProcs
    /\ config = DEFAULT_CONFIG
    /\ ops = 0
    /\ last = [op |-> "init"]

\* what cannot be read during a call: nothing, or one thing of one installation
BrokenChoices ==
    {{}} \cup { {[dest |-> d, what |-> w]} : d \in DOMAIN installed, w \in {"manifest", "content"} }

ShowCommandAct ==
    /\ last.op = "init"
    /\ \E skillName \in ShowNames, broken \in BrokenChoices :
       \E found \in {FindSkillInstallations(skillName, installed, broken)} :
          /\ last' = [op |-> "show", name |-> skillName, broken |-> broken,
                      ok |-> found.ok, installations |-> found.installations,
                      output |-> ShowCommand(found)]
          /\ UNCHANGED <<procs, net, skillsCache, disk, agentDirs, installed, tmpDirs, config, ops>>

NextShow == ShowCommandAct

SpecShow == InitShow /\ [][NextShow]_vars

\* the locations that hold the skill with a manifest that parses
Present(name) ==
    { i \in 1..Len(Candidates) :
        /\ GetSkillInstallPath(name, Candidates[i].agent, Candidates[i].isGlobal)
              \in DOMAIN installed
        /\ \E f \in installed[GetSkillInstallPath(name, Candidates[i].agent,
                                                  Candidates[i].isGlobal)] :
              /\ f.path = <<"SKILL.md">>
              /\ f.content.block /\ f.content.name # "" /\ f.content.description # "" }

\* the entry returned for a location
EntryFor(i) ==
    { k \in 1..Len(last.installations) :
        /\ last.installations[k].agent = Candidates[i].agent
        /\ last.installations[k].isGlobal = Candidates[i].isGlobal }

\* C13 as the spec states it: when everything can be read, one entry is
\* returned for each location that holds the skill with a manifest that parses
\* and none for any other; two locations with different content have
\* different content hashes; show reports multiple versions exactly when the
\* entries do not share one hash
C13_AsStated ==
    (last.op = "show" /\ last.broken = {}) =>
        /\ last.ok
        /\ \A i \in 1..Len(Candidates) :
              Cardinality(EntryFor(i)) = (IF i \in Present(last.name) THEN 1 ELSE 0)
        /\ \A k, l \in 1..Len(last.installations) :
              installed[last.installations[k].path] # installed[last.installations[l].path]
                  => last.installations[k].contentHash # last.installations[l].contentHash
        /\ (last.output = "Multiple versions detected") =
              (\E k, l \in 1..Len(last.installations) :
                  last.installations[k].contentHash # last.installations[l].contentHash)

\* C14 as the spec states it: findSkillInstallations never fails; a location
\* where something cannot be read is left out and the others are returned
C14_AsStated ==
    last.op = "show" =>
        /\ last.ok
        /\ \A i \in 1..Len(Candidates) :
              Cardinality(EntryFor(i)) =
                  (IF /\ i \in Present(last.name)
                      /\ \A b \in last.broken :
                            b.dest # GetSkillInstallPath(last.name, Candidates[i].agent,
                                                         Candidates[i].isGlobal)
                   THEN 1 ELSE 0)

(***************************************************************************)
(* Properties of the installer's errors and of download tracking.          *)
(***************************************************************************)
\* what the message of the error says: the error, and in the sparse-checkout
\* version the error it wraps
ErrorText(l) == {l.error, l.cause}

\* discovery ran in the install and found nothing
FoundNothing(l) == l.op = "install" /\ l.searched /\ l.manifestNames = <<>>

Written(l) == {l.dests[i] : i \in 1..Len(l.dests)}

\* C16: when the manifest of a discovered directory does not parse at the time
\* it is read for copying, the whole call fails with the "Invalid skill"
\* error; that directory and the ones after it are not copied
C16_InvalidSkillFails ==
    [][(last'.op = "install" /\ last'.fault = "vanish") =>
          /\ last'.status = "error"
          /\ "Invalid skill" \in ErrorText(last')
          /\ last'.skillNames = <<>>
          /\ Len(last'.dests) = last'.faultAt - 1
          /\ \A p \in DOMAIN installed' \ Written(last') :
                p \in DOMAIN installed /\ installed'[p] = installed[p]
          /\ DOMAIN installed \subseteq DOMAIN installed']_vars

\* the manifest of the second of two discovered directories disappeared: the
\* first was copied, the second was not
C16_Witness ==
    /\ last.op = "install"
    /\ last.fault = "vanish"
    /\ last.faultAt = 2
    /\ Len(last.manifestNames) = 2
    /\ Len(last.dests) = 1

\* the fetch subprocess of a repository install failed
FetchFailed(l) ==
    IF l.strategy = "sparse"
    THEN /\ ParseGithubLocation(l.source.location).ok
         /\ ~GitFetches(ParseGithubLocation(l.source.location), l.fault)
    ELSE ~DegitFetches(l.source.location, l.fault)

\* C17 as the spec states it: an install from a repository fails with the
\* "Failed to download from GitHub" error exactly when its fetch subprocess
\* failed
C17_AsStated ==
    (last.op = "install" /\ last.strategy \in {"degit", "sparse"}) =>
        ((last.error = "Failed to download from GitHub") = FetchFailed(last))

\* C20: a download is recorded only for a shortcut source after its skills
\* were copied; whatever the outcome of the tracking call the install
\* succeeds with the names that were copied; for a local or repository
\* source and for an install that fails, trackDownload is not called
C20_TrackingNeverFails ==
    last.op = "install" =>
        /\ last.tracked =>
              /\ last.source.type = "shortcut"
              /\ last.status = "ok"
              /\ last.skillNames = last.returned
              /\ last.skillNames # <<>>
              /\ \A i \in 1..Len(last.dests) : last.dests[i] \in DOMAIN installed
        /\ (last.source.type = "shortcut" /\ last.returned # <<>>) => last.tracked
        /\ (last.source.type # "shortcut" \/ last.returned = <<>>) =>
              (~last.tracked /\ ~last.recorded)

\* a shortcut was installed while the tracking call met a network error
C20_Witness ==
    /\ last.op = "install"
    /\ last.tracked
    /\ last.trackOutcome = "network error"
    /\ last.status = "ok"

(***************************************************************************)
(* utils/registry.ts: the calls of one process on the registry, one after  *)
(* another, while the registry's availability and listing change.          *)
(***************************************************************************)
MaxCalls == 3

\* getSkillByName: [ok, cache, found, skill]
GetSkillByName(name, cache, netNow) ==
    With(GetSkillsFromRegistry(cache, netNow), LAMBDA fetched :
    With(FindSkillIndex(fetched.listing, name), LAMBDA idx :
      [ok |-> fetched.ok, cache |-> fetched.cache, found |-> idx # 0,
       skill |-> IF idx # 0 THEN fetched.listing[idx] ELSE EntryNoPath]))

\* isShortcut
IsShortcut(name, cache, netNow) ==
    With(GetSkillByName(name, cache, netNow), LAMBDA got :
      [ok |-> got.ok, cache |-> got.cache, answer |-> <<got.found>>])

\* getShortcutUrl: the degit_path of the skill, undefined without the skill
GetShortcutUrl(name, cache, netNow) ==
    With(GetSkillByName(name, cache, netNow), LAMBDA got :
      [ok |-> got.ok, cache |-> got.cache,
       answer |-> IF got.found THEN <<got.skill.degit_path>> ELSE <<>>])

\* listShortcuts
ListShortcuts(name, cache, netNow) ==
    With(GetSkillsFromRegistry(cache, netNow), LAMBDA fetched :
      [ok |-> fetched.ok, cache |-> fetched.cache,
       answer |-> [i \in 1..Len(fetched.listing) |-> fetched.listing[i].name]])

\* getSkillsFromRegistry, called by the list command
ListRegistry(name, cache, netNow) ==
    With(GetSkillsFromRegistry(cache, netNow), LAMBDA fetched :
      [ok |-> fetched.ok, cache |-> fetched.cache, answer |-> fetched.listing])

RegistryFunctions ==
    {"isShortcut", "getShortcutUrl", "listShortcuts", "getSkillsFromRegistry"}

RegistryNames == {<<"tinker">>, <<"zipped">>, <<"nope">>}

RegistryCall(fn, name, cache, netNow) ==
    CASE fn = "isShortcut" -> IsShortcut(name, cache, netNow)
      [] fn = "getShortcutUrl" -> GetShortcutUrl(name, cache, netNow)
      [] fn = "listShortcuts" -> ListShortcuts(name, cache, netNow)
      [] OTHER -> ListRegistry(name, cache, netNow)

InitRegistry ==
    /\ net \in NetChoices
    /\ skillsCache = NoCache
    /\ disk = SourceDisk
    /\ agentDirs = {}
    /\ installed = NoInstalled
    /\ tmpDirs = {}
    /\ procs = NoProcs
    /\ config = DEFAULT_CONFIG
    /\ ops = 0
    /\ last = [op |-> "none", calls |-> 0, queries |-> 0]

\* one call of the process on the registry
RegistryCallStep(fn, name) ==
    \E call \in {RegistryCall(fn, name, skillsCache, net)} :
        /\ skillsCache' = call.cache
        /\ ops' = ops + 1
        /\ last' = [op |-> "call", fn |-> fn, name |-> name,
                    calls |-> last.calls + 1,
                    queried |-> QueriesNetwork(skillsCache),
                    queries |-> last.queries + (IF QueriesNetwork(skillsCache) THEN 1 ELSE 0),
                    ok |-> call.ok, answer |-> call.answer,
                    cacheBefore |-> skillsCache, netAt |-> net]
        /\ UNCHANGED <<procs, net, disk, agentDirs, installed, tmpDirs, config>>

RegistryCallAct ==
    /\ ops < MaxCalls
    /\ \E fn \in RegistryFunctions : \E name \in RegistryNames : RegistryCallStep(fn, name)

\* the registry goes down, comes back or changes its listing between two calls
RegistryChangesAct ==
    /\ ops < MaxCalls
    /\ last.op # "change"
    /\ \E n \in NetChoices \ {net} : net' = n
    /\ last' = [op |-> "change", calls |-> last.calls, queries |-> last.queries]
    /\ UNCHANGED <<procs, skillsCache, disk, agentDirs, installed, tmpDirs, config, ops>>

NextRegistry == RegistryCallAct \/ RegistryChangesAct

SpecRegistry == InitRegistry /\ [][NextRegistry]_vars

\* C19 as the spec states it: within one process only the first call on the
\* registry performs the network query
C19_AsStated == (last.op = "call" /\ last.queried) => last.calls = 1

\* C19: a call on the registry queries the network exactly when no earlier
\* call obtained the listing; a listing once obtained is never replaced and
\* answers every later call, whatever the registry holds by then; a failed
\* query caches nothing
C19_CachedOnceObtained ==
    [][/\ skillsCache.set => skillsCache' = skillsCache
       /\ last'.op = "call" =>
            /\ last'.queried = ~skillsCache.set
            /\ skillsCache.set =>
                 /\ last'.ok
                 /\ last'.answer =
                      RegistryCall(last'.fn, last'.name, skillsCache,
                                   [up |-> FALSE, listing |-> <<>>]).answer
            /\ ~skillsCache.set =>
                 /\ last'.ok = net.up
                 /\ skillsCache'.set = net.up
                 /\ net.up => skillsCache'.listing = net.listing]_vars

\* a call answered from the cache after the registry changed its listing
C19_Witness ==
    /\ last.op = "call"
    /\ ~last.queried
    /\ last.netAt.up
    /\ last.netAt.listing # last.cacheBefore.listing
    /\ last.queries = 1

(***************************************************************************)
(* core/skill-install.ts: installs of two processes at the same time. They *)
(* share os.tmpdir() and the clock; each install names its staging         *)
(* directory, fills it, and removes it in its finally block.               *)
(***************************************************************************)
MaxClock == 2

StageProcs == {1, 2}

\* the prefix of the staging directory: installFromZip and installFromGithub
\* use sun-install, the sparse-checkout installFromGithub skill-install
StagePrefixes == {"sun-install", "skill-install"}

\* path.join(os.tmpdir(), `<prefix>-${Date.now()}`)
StagingDir(prefix) == <<prefix, DateNow>>

\* the install has named its staging directory and not yet removed it
InFlight(pr) == pr.pc \in {"started", "staged"}

InitStage ==
    /\ net = InstallNet
    /\ skillsCache = NoCache
    /\ disk = SourceDisk
    /\ agentDirs = {}
    /\ installed = NoInstalled
    /\ tmpDirs = {}
    /\ config = DEFAULT_CONFIG
    /\ ops = 0
    /\ last = [op |-> "none"]
    /\ procs = [p \in StageProcs |-> [pc |-> "idle", tempDir |-> <<>>]]

\* const tempDir = path.join(os.tmpdir(), ...): the first statement of the install
StartInstallAct ==
    \E p \in StageProcs : \E prefix \in StagePrefixes :
        /\ procs[p].pc = "idle"
        /\ procs' = [procs EXCEPT ![p] = [pc |-> "started", tempDir |-> StagingDir(prefix)]]
        /\ last' = [op |-> "start", p |-> p, tempDir |-> StagingDir(prefix)]
        /\ UNCHANGED <<net, skillsCache, disk, agentDirs, installed, tmpDirs, config, ops>>

\* the try block up to discovery: the fetch, then ensureDir(tempDir) and the
\* extraction; a fetch that fails leaves the directory as it is
StageAct ==
    \E p \in StageProcs : \E fetched \in BOOLEAN :
        /\ procs[p].pc = "started"
        /\ procs' = [procs EXCEPT ![p].pc = "staged"]
        /\ tmpDirs' = IF fetched THEN tmpDirs \cup {procs[p].tempDir} ELSE tmpDirs
        /\ last' = [op |-> "stage", p |-> p, tempDir |-> procs[p].tempDir,
                    fetched |-> fetched]
        /\ UNCHANGED <<net, skillsCache, disk, agentDirs, installed, config, ops>>

\* finally { await fs.remove(tempDir).catch(() => {}) }
CleanupAct ==
    \E p \in StageProcs :
        /\ procs[p].pc = "staged"
        /\ procs' = [procs EXCEPT ![p].pc = "done"]
        /\ tmpDirs' = RemoveTemp(tmpDirs, procs[p].tempDir)
        /\ last' = [op |-> "cleanup", p |-> p, tempDir |-> procs[p].tempDir]
        /\ UNCHANGED <<net, skillsCache, disk, agentDirs, installed, config, ops>>

\* a millisecond passes
TickAct ==
    /\ ops < MaxClock
    /\ ops' = ops + 1
    /\ last' = [op |-> "tick"]
    /\ UNCHANGED <<net, skillsCache, disk, agentDirs, installed, tmpDirs, config, procs>>

NextStage == StartInstallAct \/ StageAct \/ CleanupAct \/ TickAct

SpecStage == InitStage /\ [][NextStage]_vars

\* C18 as the spec states it: two installs that run at the same time never
\* use the same temporary directory
C18_AsStated ==
    \A p \in StageProcs : \A q \in StageProcs \ {p} :
        (InFlight(procs[p]) /\ InFlight(procs[q])) =>
            procs[p].tempDir # procs[q].tempDir

(***************************************************************************)
(* Properties of the loops of addCommand and removeCommand.                *)
(***************************************************************************)
\* the calls a command made for its k-th skill reference
CallsFor(l, k) == SelectSeq(l.calls, LAMBDA c : c.skill = l.skills[k])

\* the position of a skill reference in the arguments of the command
SkillIndex(l, skill) == CHOOSE k \in 1..Len(l.skills) : l.skills[k] = skill

\* C21: addCommand and removeCommand take the skill references one at a time
\* in input order: there is one result per reference, in that order; the calls
\* for a reference go through the target agents in order and come before the
\* calls for the next reference; a reference that fails has its error in its
\* own result, and every reference after it is still attempted
C21_EveryReferenceAttempted ==
    (last.op = "command" /\ last.status = "ok") =>
        /\ Len(last.results) = Len(last.skills)
        /\ \A k \in 1..Len(last.skills) :
              /\ last.results[k].skill = last.skills[k]
              /\ Len(CallsFor(last, k)) \in 1..Len(last.agents)
              /\ \A j \in 1..Len(CallsFor(last, k)) :
                    CallsFor(last, k)[j].agentFlag = last.agents[j]
              /\ (last.results[k].error = "none") =
                    (Len(CallsFor(last, k)) = Len(last.agents)
                       /\ Len(last.results[k].agents) + (IF last.cmd = "remove"
                                                          THEN Len(last.results[k].notFoundIn)
                                                          ELSE 0) = Len(last.agents))
        /\ \A c \in 1..Len(last.calls) : \A d \in c..Len(last.calls) :
              SkillIndex(last, last.calls[c].skill) <= SkillIndex(last, last.calls[d].skill)

\* a remove of two skills whose first directory could not be deleted: the
\* error is in the first result and the second skill was removed
C21_Witness ==
    /\ last.op = "command"
    /\ last.cmd = "remove"
    /\ last.skills = <<"one", "two">>
    /\ Len(last.results) = 2
    /\ last.results[1].error = "EACCES"
    /\ last.results[2].error = "none"
    /\ last.results[2].agents # <<>>

MaxPathOps == 2

\* manifest names and remove arguments
PathNames ==
    {"widget", "..", ".", "../x", "a/b", "../../.codex/skills/widget",
     "../../../h/.claude/skills/widget"}

\* a skill directory whose SKILL.md declares the name
NamedSkillTree(name) ==
    << FileEntry(<<"SKILL.md">>, ManifestContent(name, "d", "v1")),
       FileEntry(<<"a.txt">>, PlainContent(name)) >>

InitPath ==
    /\ net = InstallNet
    /\ skillsCache = NoCache
    /\ disk = SourceDisk
    /\ agentDirs = {}
    /\ installed = NoInstalled
    /\ tmpDirs = {}
    /\ procs = NoProcs
    /\ config = DEFAULT_CONFIG
    /\ ops = 0
    /\ last = [op |-> "none"]

\* installSkillDirectory(skillDir, agentFlag, isGlobal)
InstallNamedAct ==
    /\ ops < MaxPathOps
    /\ \E name \in PathNames, agentFlag \in AgentFlags, isGlobal \in Scopes :
       \E call \in {InstallSkillDirectory(installed, agentDirs, NamedSkillTree(name), <<>>,
                                          agentFlag, isGlobal, "none")} :
          /\ installed' = call.installed
          /\ agentDirs' = call.agentDirs
          /\ ops' = ops + 1
          /\ last' = [op |-> "install", name |-> name, agentFlag |-> agentFlag,
                      isGlobal |-> isGlobal, acted |-> call.ok, dest |-> call.dest]
          /\ UNCHANGED <<procs, net, skillsCache, disk, tmpDirs, config>>

\* removeSkill(skillName, agentFlag, isGlobal)
RemoveNamedAct ==
    /\ ops < MaxPathOps
    /\ \E name \in PathNames, agentFlag \in AgentFlags, isGlobal \in Scopes :
       \E call \in {RemoveSkill(name, agentFlag, isGlobal, Fs)} :
          /\ installed' = call.installed
          /\ agentDirs' = call.agentDirs
          /\ ops' = ops + 1
          /\ last' = [op |-> "remove", name |-> name, agentFlag |-> agentFlag,
                      isGlobal |-> isGlobal, acted |-> call.returned,
                      dest |-> GetSkillInstallPath(name, agentFlag, isGlobal)]
          /\ UNCHANGED <<procs, net, skillsCache, disk, tmpDirs, config>>

NextPath == InstallNamedAct \/ RemoveNamedAct

SpecPath == InitPath /\ [][NextPath]_vars

\* the folder of the agent in the base directory of the scope
TargetFolder(l) ==
    <<IF l.isGlobal THEN OsHomedir ELSE ProcessCwd, GetAgentByFlag(l.agentFlag).folderName>>

\* C23 as stated: an install or a removal that targets an agent and a scope
\* creates, modifies or deletes nothing outside that agent's folder in that
\* scope's base directory
C23_AsStated ==
    [][last'.op \in {"install", "remove"} =>
          /\ \A p \in DOMAIN installed :
                ~IsPrefix(TargetFolder(last'), p) =>
                    p \in DOMAIN installed' /\ installed'[p] = installed[p]
          /\ \A p \in DOMAIN installed' :
                ~IsPrefix(TargetFolder(last'), p) => p \in DOMAIN installed
          /\ \A d \in agentDirs \cup agentDirs' :
                d # TargetFolder(last') => (d \in agentDirs /\ d \in agentDirs')]_vars

\* C27 as stated: the path that install writes and the path that removeSkill
\* deletes is a direct child of {base}/{agent folder}/skills
C27_AsStated ==
    (last.op \in {"install", "remove"} /\ last.acted) =>
        /\ Len(last.dest) = 4
        /\ SubSeq(last.dest, 1, 3) = TargetFolder(last) \o <<"skills">>

(***************************************************************************)
(* core/skill-info.ts: parseFrontmatter on the text of a SKILL.md. The     *)
(* text is its lines; a line is its tokens: words, " ", ":", the quotes    *)
(* and "---".                                                              *)
(***************************************************************************)
MaxHeaderLines == 3

Whitespace == {" "}

Undefined == "undefined"

\* the first line of content.match(/^---\n([\s\S]*?)\n---/): the text opens
\* with "---\n", and the header ends before the first later line that opens
\* with "---", the header holding at least one line
ClosingLine(content) ==
    IF /\ Len(content) >= 3
       /\ content[1] = <<"---">>
       /\ \E j \in 3..Len(content) : content[j] # <<>> /\ content[j][1] = "---"
    THEN CHOOSE j \in 3..Len(content) :
            /\ content[j] # <<>> /\ content[j][1] = "---"
            /\ \A k \in 3..(j - 1) : content[k] = <<>> \/ content[k][1] # "---"
    ELSE 0

\* frontmatterMatch[1].split('\n')
FrontmatterLines(content) == SubSeq(content, 2, ClosingLine(content) - 1)

\* line.match(/^metadata:\s*$/)
IsMetadataMarker(line) ==
    /\ Len(line) >= 2
    /\ line[1] = "metadata"
    /\ line[2] = ":"
    /\ \A i \in 3..Len(line) : line[i] \in Whitespace

\* a test of the end of the block that takes every line without indentation,
\* the empty line too
NotIndented(line) == line = <<>> \/ line[1] \notin Whitespace

\* line.match(/^\S/)
StartsNonBlank(line) == line # <<>> /\ line[1] \notin Whitespace

\* value with its surrounding quotes removed: value.slice(1, -1)
StripQuotes(value) ==
    IF /\ value # <<>>
       /\ \/ value[1] = "\"" /\ value[Len(value)] = "\""
          \/ value[1] = "'" /\ value[Len(value)] = "'"
    THEN SubSeq(value, 2, Len(value) - 1)
    ELSE value

\* line.slice(0, colonIndex).trim() and the value after the colon
KeyOf(line) == Trim(SubSeq(line, 1, IndexOf(line, ":") - 1))
ValueOf(line) == StripQuotes(Trim(SubSeq(line, IndexOf(line, ":") + 1, Len(line))))

\* colonIndex > 0: a colon that is not the first character
HasPair(line) == IndexOf(line, ":") > 1

\* metadata[key] = value
PutKey(map, key, value) ==
    [k \in DOMAIN map \cup {key} |-> IF k = key THEN value ELSE map[k]]

NoFields ==
    [inMetadata |-> FALSE, name |-> <<>>, description |-> <<>>, license |-> Undefined,
     compatibility |-> Undefined, allowedTools |-> Undefined,
     metadata |-> [k \in {} |-> <<>>]]

\* an assignment that takes the top-level keys inside the block as well
AssignTopLevelFirst(st, key, value) ==
    CASE key = <<"name">> -> [st EXCEPT !.name = value]
      [] key = <<"description">> -> [st EXCEPT !.description = value]
      [] key = <<"license">> -> [st EXCEPT !.license = value]
      [] key = <<"compatibility">> -> [st EXCEPT !.compatibility = value]
      [] key = <<"allowed-tools">> -> [st EXCEPT !.allowedTools = value]
      [] OTHER -> IF st.inMetadata THEN [st EXCEPT !.metadata = PutKey(@, key, value)] ELSE st

\* if (inMetadata) metadata[key] = value; else switch (key)
AssignPair(st, key, value) ==
    IF st.inMetadata THEN [st EXCEPT !.metadata = PutKey(@, key, value)]
    ELSE CASE key = <<"name">> -> [st EXCEPT !.name = value]
           [] key = <<"description">> -> [st EXCEPT !.description = value]
           [] key = <<"license">> -> [st EXCEPT !.license = value]
           [] key = <<"compatibility">> -> [st EXCEPT !.compatibility = value]
           [] key = <<"allowed-tools">> -> [st EXCEPT !.allowedTools = value]
           [] OTHER -> st

\* the body of the for loop over the lines
ParseLine(st, line) ==
    IF IsMetadataMarker(line) THEN [st EXCEPT !.inMetadata = TRUE]
    ELSE With([st EXCEPT !.inMetadata = @ /\ ~StartsNonBlank(line)], LAMBDA st1 :
           IF HasPair(line) THEN AssignPair(st1, KeyOf(line), ValueOf(line)) ELSE st1)

RECURSIVE ParseLines(_, _, _)
ParseLines(st, lines, i) ==
    IF i > Len(lines) THEN st ELSE ParseLines(ParseLine(st, lines[i]), lines, i + 1)

\* a final test that asks for the name only
MissingName(st) == st.name = <<>>

\* if (!name || !description) return null
MissingRequired(st) == st.name = <<>> \/ st.description = <<>>

NoSkillMetadata == [ok |-> FALSE]

\* the record returned: metadata is undefined when the block gave no key
SkillMetadataOf(st) ==
    [ok |-> TRUE, name |-> st.name, description |-> st.description, license |-> st.license,
     compatibility |-> st.compatibility, allowedTools |-> st.allowedTools,
     metadata |-> IF DOMAIN st.metadata = {} THEN Undefined ELSE st.metadata]

\* the fields as they stand after the loop; NoFields without a header block
ParsedFields(content) ==
    IF ClosingLine(content) = 0 THEN NoFields
    ELSE ParseLines(NoFields, FrontmatterLines(content), 1)

\* parseFrontmatter on the text
ParseFrontmatterText(content) ==
    IF ClosingLine(content) = 0 THEN NoSkillMetadata
    ELSE With(ParsedFields(content), LAMBDA st :
           IF MissingRequired(st) THEN NoSkillMetadata ELSE SkillMetadataOf(st))

\* the lines a header is made of
HeaderLineChoices ==
    { <<"name", ":", " ", "v">>,
      <<"name", ":", " ", "\"", "v", "\"">>,
      <<"name", ":", " ", "\"", "\"">>,
      <<"name", ":">>,
      <<"description", ":", " ", "'", "d", "'">>,
      <<"description", ":", " ">>,
      <<"license", ":", " ", "MIT">>,
      <<"author", ":", " ", "v">>,
      <<"metadata", ":">>,
      <<"metadata", ":", " ">>,
      <<" ", " ", "name", ":", " ", "w">>,
      <<" ", " ", "author", ":", " ", "w">>,
      <<>>,
      <<":", " ", "v">> }

\* SKILL.md texts: a header of up to MaxHeaderLines lines between "---" lines,
\* and texts without the opening line, without the closing line, without header
SkillTexts ==
    { <<<<"---">>>> \o h \o << <<"---">>, <<"body">> >> :
        h \in UNION { [1..n -> HeaderLineChoices] : n \in 1..MaxHeaderLines } }
    \cup { << <<"---">>, <<"---">> >>,
           << <<"---">>, <<"name", ":", " ", "v">>, <<"description", ":", " ", "d">> >>,
           << <<"name", ":", " ", "v">>, <<"description", ":", " ", "d">>, <<"---">> >>,
           << <<"body">> >>,
           << <<"---">>, <<"name", ":", " ", "v">>, <<"description", ":", " ", "d">>,
              <<"---", "-">> >>,
           <<>> }

InitParse ==
    /\ net = InstallNet
    /\ skillsCache = NoCache
    /\ disk \in SkillTexts
    /\ agentDirs = {}
    /\ installed = NoInstalled
    /\ tmpDirs = {}
    /\ procs = NoProcs
    /\ config = DEFAULT_CONFIG
    /\ ops = 0
    /\ last = [op |-> "init"]

\* parseFrontmatter(content) on the text on disk
ParseFrontmatterAct ==
    /\ last.op = "init"
    /\ last' = [op |-> "parse", result |-> ParseFrontmatterText(disk),
                fields |-> ParsedFields(disk),
                lines |-> IF ClosingLine(disk) = 0 THEN <<>> ELSE FrontmatterLines(disk),
                matched |-> ClosingLine(disk) # 0]
    /\ UNCHANGED <<procs, net, skillsCache, disk, agentDirs, installed, tmpDirs, config, ops>>

NextParse == ParseFrontmatterAct

SpecParse == InitParse /\ [][NextParse]_vars

\* the lines of the header that give a key a non-empty value
GivesNonEmpty(lines, key) ==
    { i \in 1..Len(lines) : HasPair(lines[i]) /\ KeyOf(lines[i]) = <<key>>
                               /\ ValueOf(lines[i]) # <<>> }

\* C24: parseFrontmatter returns null or a record whose name and description
\* are both non-empty, the values of header lines with their surrounding
\* quotes removed; it returns null for a text without a delimited header block
\* and for a header without a non-empty name or a non-empty description
C24_NullOrComplete ==
    last.op = "parse" =>
        /\ last.result.ok =>
              /\ last.matched
              /\ last.result.name # <<>>
              /\ last.result.description # <<>>
              /\ \E i \in GivesNonEmpty(last.lines, "name") :
                    last.result.name = ValueOf(last.lines[i])
              /\ \E i \in GivesNonEmpty(last.lines, "description") :
                    last.result.description = ValueOf(last.lines[i])
              /\ DOMAIN last.result =
                    {"ok", "name", "description", "license", "compatibility",
                     "allowedTools", "metadata"}
        /\ ~last.result.ok => last.result = NoSkillMetadata
        /\ ~last.matched => ~last.result.ok
        /\ (GivesNonEmpty(last.lines, "name") = {}
              \/ GivesNonEmpty(last.lines, "description") = {}) => ~last.result.ok

\* a header with a quoted name and a description parsed to a record, and the
\* quotes are gone
C24_Witness ==
    /\ last.op = "parse"
    /\ last.result.ok
    /\ last.lines[1] = <<"name", ":", " ", "\"", "v", "\"">>
    /\ last.result.name = <<"v">>

\* line i of the header lies in a metadata block: a marker line comes before
\* it and no line from there to i ends the block; Ends says which lines do
InBlock(lines, i, Ends(_)) ==
    /\ ~IsMetadataMarker(lines[i])
    /\ \E m \in 1..(i - 1) :
          /\ IsMetadataMarker(lines[m])
          /\ \A k \in (m + 1)..i : IsMetadataMarker(lines[k]) \/ ~Ends(lines[k])

\* the lines that give a pair at the top level, and in a block
TopLevelPairs(lines, Ends(_)) ==
    { i \in 1..Len(lines) :
        HasPair(lines[i]) /\ ~IsMetadataMarker(lines[i]) /\ ~InBlock(lines, i, Ends) }

BlockPairs(lines, Ends(_)) ==
    { i \in 1..Len(lines) : HasPair(lines[i]) /\ InBlock(lines, i, Ends) }

\* the value of the last line among pairs that gives the key
LastValue(lines, pairs, key, default) ==
    IF \E i \in pairs : KeyOf(lines[i]) = key
    THEN ValueOf(lines[CHOOSE i \in pairs :
                          /\ KeyOf(lines[i]) = key
                          /\ \A j \in pairs : KeyOf(lines[j]) = key => j <= i])
    ELSE default

\* the fields are those of the two-state machine: the five top-level fields
\* from the top-level pairs, the nested map from the pairs of the blocks
MachineGives(l, Ends(_)) ==
    /\ l.fields.name = LastValue(l.lines, TopLevelPairs(l.lines, Ends), <<"name">>, <<>>)
    /\ l.fields.description =
          LastValue(l.lines, TopLevelPairs(l.lines, Ends), <<"description">>, <<>>)
    /\ l.fields.license =
          LastValue(l.lines, TopLevelPairs(l.lines, Ends), <<"license">>, Undefined)
    /\ l.fields.compatibility =
          LastValue(l.lines, TopLevelPairs(l.lines, Ends), <<"compatibility">>, Undefined)
    /\ l.fields.allowedTools =
          LastValue(l.lines, TopLevelPairs(l.lines, Ends), <<"allowed-tools">>, Undefined)
    /\ DOMAIN l.fields.metadata =
          { KeyOf(l.lines[i]) : i \in BlockPairs(l.lines, Ends) }
    /\ \A k \in DOMAIN l.fields.metadata :
          l.fields.metadata[k] = LastValue(l.lines, BlockPairs(l.lines, Ends), k, <<>>)

DetectAgentsInDirectory(dirs, directory, isGlobal) ==
    [i \in 1..Len(SelectSeq(AGENTS, LAMBDA a : <<directory, a.folderName>> \in dirs)) |->
        [agent |-> SelectSeq(AGENTS, LAMBDA a : <<directory, a.folderName>> \in dirs)[i].flag,
         isGlobal |-> isGlobal]]

\* detectAllAgents: [...local, ...global]
DetectAllAgents(dirs) ==
    DetectAgentsInDirectory(dirs, ProcessCwd, FALSE)
        \o DetectAgentsInDirectory(dirs, OsHomedir, TRUE)

\* wouldBeAffected = isDefault && (isGlobal ? !hasLocalFolder : true)
WouldBeAffected(detected, cfg, dirs) ==
    /\ \E i \in 1..Len(GetDefaultAgents(cfg)) : GetDefaultAgents(cfg)[i] = detected.agent
    /\ detected.isGlobal => detected.agent \notin DetectLocalAgents(dirs)

\* showAllAgents: one row per detected folder, with its marker
ShowAllAgents(cfg, dirs) ==
    [i \in 1..Len(DetectAllAgents(dirs)) |->
        [agent |-> DetectAllAgents(dirs)[i].agent,
         isGlobal |-> DetectAllAgents(dirs)[i].isGlobal,
         marked |-> WouldBeAffected(DetectAllAgents(dirs)[i], cfg, dirs)]]

\* the agent folders that may exist in the current and in the home directory
FolderChoices ==
    SUBSET { <<base, AGENTS[i].folderName>> : base \in {ProcessCwd, OsHomedir},
                                               i \in 1..Len(AGENTS) }

InitOverview ==
    /\ net = InstallNet
    /\ skillsCache = NoCache
    /\ disk = SourceDisk
    /\ agentDirs \in FolderChoices
    /\ installed = NoInstalled
    /\ tmpDirs = {}
    /\ procs = NoProcs
    /\ config \in ConfigChoices
    /\ ops = 0
    /\ last = [op |-> "init"]

\* sun show
ShowAllAgentsAct ==
    /\ last.op = "init"
    /\ last' = [op |-> "show", rows |-> ShowAllAgents(config, agentDirs)]
    /\ UNCHANGED <<procs, net, skillsCache, disk, agentDirs, installed, tmpDirs, config, ops>>

NextOverview == ShowAllAgentsAct

SpecOverview == InitOverview /\ [][NextOverview]_vars

NoFlags == [global |-> FALSE, agents |-> {}]

\* the targets resolved for the folder of the row: the agent among the target
\* agents, the scope the one scope of the command
Targeted(row, targets) ==
    /\ targets.ok
    /\ \E i \in 1..Len(targets.agents) : targets.agents[i] = row.agent
    /\ targets.isGlobal = row.isGlobal

\* C26 as stated: a folder of the overview carries the check mark exactly when
\* a remove without flags, and an add without flags that does not prompt, run
\* in the same directory would target that folder
C26_AsStated ==
    last.op = "show" =>
        \A i \in 1..Len(last.rows) :
            /\ last.rows[i].marked =
                  Targeted(last.rows[i], ResolveTargetAgentsRemove(NoFlags, config, agentDirs))
            /\ ~IsFirstRun(config) =>
                  last.rows[i].marked =
                      Targeted(last.rows[i],
                               ResolveTargetAgentsAdd(NoFlags, config, agentDirs, <<>>))

\* C28: while the registry listing cannot be fetched, resolveSkillSource fails
\* for every input, GitHub URLs and existing local paths included: a 'github'
\* or 'local' result is given only with the listing obtained; the failure
\* caches nothing, so the next resolution queries the registry again
C28_NoListingNoResolution ==
    [][last'.op = "resolve" =>
          /\ (~skillsCache.set /\ ~net.up) =>
                /\ last'.res.status = "error"
                /\ last'.res.error = "Failed to fetch skills"
                /\ last'.queried
                /\ skillsCache' = NoCache
          /\ last'.res.type \in {"shortcut", "github", "local"} => skillsCache'.set
          /\ last'.queried = ~skillsCache.set]_vars

\* a GitHub URL failed to resolve while the registry was unreachable, and
\* resolved on the next attempt, which queried the registry again
C28_Witness ==
    /\ last.op = "resolve"
    /\ last.attempt = 2
    /\ last.queried
    /\ Includes(last.input, "github.com")
    /\ last.res.type = "github"


(***************************************************************************)
(* Two discovered directories with the same manifest name.                 *)
(***************************************************************************)
\* the files at path p before the step, none when p did not exist
FilesBefore(p) == IF p \in DOMAIN installed THEN installed[p] ELSE {}

\* the paths of a set of files
PathsOf(files) == {f.path : f \in files}

\* C30: when two discovered directories of one source declare the same
\* manifest name, both are copied to the same destination in discovery order
\* and the call succeeds; the destination then holds every file of the later
\* directory, every file of the earlier one whose path the later lacks, and
\* beyond these only what it held before; the name is returned twice
C30_SameNameMerged ==
    [][(last'.op = "install" /\ last'.status = "ok") =>
          \A i, j \in 1..Len(last'.manifestNames) :
             (i < j /\ last'.manifestNames[i] = last'.manifestNames[j]) =>
                /\ last'.dests[i] = last'.dests[j]
                /\ last'.skillNames[i] = last'.manifestNames[i]
                /\ last'.skillNames[j] = last'.manifestNames[i]
                /\ \A k \in (j + 1)..Len(last'.manifestNames) :
                      last'.manifestNames[k] # last'.manifestNames[j]
                /\ last'.srcFiles[j] \subseteq installed'[last'.dests[j]]
                /\ \A f \in last'.srcFiles[i] :
                      f.path \notin PathsOf(last'.srcFiles[j])
                          => f \in installed'[last'.dests[j]]
                /\ \A f \in installed'[last'.dests[j]] :
                      \/ f \in last'.srcFiles[j]
                      \/ f \in last'.srcFiles[i]
                      \/ f \in FilesBefore(last'.dests[j])]_vars

\* ./dup-skills was installed: widget is returned twice, and the one
\* destination has the manifest of the later folder beside x.txt of the
\* earlier and y.txt of the later
C30_Witness ==
    /\ last.op = "install"
    /\ last.status = "ok"
    /\ last.input = <<".", "/", "dup-skills">>
    /\ last.skillNames = <<"widget", "widget">>
    /\ last.dests[1] = last.dests[2]
    /\ last.srcFiles[1] # last.srcFiles[2]
    /\ {<<"SKILL.md">>, <<"x.txt">>, <<"y.txt">>} \subseteq PathsOf(installed[last.dests[1]])
    /\ \E f \in installed[last.dests[1]] : f.path = <<"SKILL.md">> /\ f \in last.srcFiles[2]
    /\ \E f \in last.srcFiles[1] : f.path = <<"SKILL.md">> /\ f \notin installed[last.dests[1]]

(***************************************************************************)
(* A reference that fails part-way.                                        *)
(***************************************************************************)
\* the results that the summary of addCommand reports
Successful(results) ==
    SelectSeq(results, LAMBDA r : r.error = "none" /\ r.installedNames # <<>>)

\* C29: nothing is rolled back. When a reference of sun add fails, every
\* directory copied for it before the failure, for the failing agent and for
\* the agents before it, is still at its destination with the paths that were
\* copied; the reference has its error recorded and is not in the summary
C29_NoRollback ==
    [][(last'.op = "command" /\ last'.cmd = "add") =>
          \A k \in 1..Len(last'.results) :
             last'.results[k].error # "none" =>
                /\ \A n \in 1..Len(last'.results[k].copied) :
                      /\ last'.results[k].copied[n].dest \in DOMAIN installed'
                      /\ PathsOf(last'.results[k].copied[n].files)
                            \subseteq PathsOf(installed'[last'.results[k].copied[n].dest])
                /\ \A m \in 1..Len(Successful(last'.results)) :
                      Successful(last'.results)[m] # last'.results[k]]_vars

\* ./multi-skills was added for two agents and the second copy for the second
\* agent failed: both skills are installed for the first agent, the first one
\* for the second agent too, and the reference counts as failed
C29_Witness ==
    /\ last.op = "command"
    /\ last.cmd = "add"
    /\ last.broken = [agent |-> 2, dir |-> 2]
    /\ Len(last.results) = 2
    /\ last.results[2].error = "copy failed"
    /\ Len(last.results[2].agents) = 1
    /\ Len(last.results[2].copied) = 3
    /\ last.results[2].installedNames # <<>>
    /\ \A n \in 1..3 : last.results[2].copied[n].dest \in DOMAIN installed
    /\ Successful(last.results) = <<>>

====
